---- MODULE Spec2Model ----
(***************************************************************************)
(* Model of the terraformgraph inference and layout pipeline:              *)
(*   ResourceAggregator.aggregate  (aggregator.py)                         *)
(*   VPCStructureBuilder.build     (aggregator.py)                         *)
(*   LayoutEngine.compute_layout   (layout.py)                             *)
(* Python str values are TLA+ strings (Len, SubSeq, \o act on them).       *)
(* Pixel coordinates are exact rationals stored as integers in units of    *)
(* 1/Unit pixel, so that the divisions by 2 and by the number of AZs made  *)
(* by the layout code are exact.                                           *)
(***************************************************************************)
EXTENDS Integers, Sequences, FiniteSets, TLC

(***************************************************************************)
(* Python str primitives                                                   *)
(***************************************************************************)
Ch(s, i) == SubSeq(s, i, i)

LowerAlpha == "abcdefghijklmnopqrstuvwxyz"
UpperAlpha == "ABCDEFGHIJKLMNOPQRSTUVWXYZ"
DigitChars == "0123456789"
\* the ASCII characters used in names, in code-point order (str comparison)
AsciiOrder == " $()-./0123456789:ABCDEFGHIJKLMNOPQRSTUVWXYZ[]_abcdefghijklmnopqrstuvwxyz{}"

CharsOf(s) == {Ch(s, i) : i \in 1..Len(s)}
LowerSet == CharsOf(LowerAlpha)
UpperSet == CharsOf(UpperAlpha)
DigitSet == CharsOf(DigitChars)
AzLetterSet == CharsOf("abcdef")
SepSet == {"-", "_"}

IsDigit(c) == c \in DigitSet
IsAlpha(c) == c \in LowerSet \/ c \in UpperSet
\* regex \w restricted to ASCII
IsWord(c) == IsAlpha(c) \/ IsDigit(c) \/ c = "_"

IndexIn(alpha, c) == CHOOSE i \in 1..Len(alpha) : Ch(alpha, i) = c
Code(c) == IF c \in CharsOf(AsciiOrder) THEN IndexIn(AsciiOrder, c) ELSE 0

LowerCh(c) == IF c \in UpperSet THEN Ch(LowerAlpha, IndexIn(UpperAlpha, c)) ELSE c
UpperCh(c) == IF c \in LowerSet THEN Ch(UpperAlpha, IndexIn(LowerAlpha, c)) ELSE c

RECURSIVE Lower(_)
Lower(s) == IF s = "" THEN "" ELSE LowerCh(Head(s)) \o Lower(Tail(s))

\* str.title(): a cased character is upper-cased when it follows an uncased
\* one (or starts the string) and lower-cased otherwise
RECURSIVE TitleFrom(_, _)
TitleFrom(s, prevCased) ==
  IF s = "" THEN ""
  ELSE LET c == Head(s)
       IN (IF IsAlpha(c) THEN (IF prevCased THEN LowerCh(c) ELSE UpperCh(c)) ELSE c)
            \o TitleFrom(Tail(s), IsAlpha(c))
Title(s) == TitleFrom(s, FALSE)

\* sub in s
Contains(s, sub) ==
  \E i \in 1..(Len(s) - Len(sub) + 1) : SubSeq(s, i, i + Len(sub) - 1) = sub
StartsWith(s, p) == Len(p) <= Len(s) /\ SubSeq(s, 1, Len(p)) = p

\* str.replace(old, new), old non-empty
RECURSIVE Replace(_, _, _)
Replace(s, old, new) ==
  IF Len(s) < Len(old) THEN s
  ELSE IF SubSeq(s, 1, Len(old)) = old
       THEN new \o Replace(SubSeq(s, Len(old) + 1, Len(s)), old, new)
       ELSE Head(s) \o Replace(Tail(s), old, new)

\* str.split(sep) for a one-character separator
RECURSIVE SplitFrom(_, _, _)
SplitFrom(s, sep, cur) ==
  IF s = "" THEN <<cur>>
  ELSE IF Head(s) = sep THEN <<cur>> \o SplitFrom(Tail(s), sep, "")
       ELSE SplitFrom(Tail(s), sep, cur \o Head(s))
Split(s, sep) == SplitFrom(s, sep, "")

\* sep.join(parts)
RECURSIVE Join(_, _)
Join(parts, sep) ==
  IF parts = <<>> THEN ""
  ELSE IF Len(parts) = 1 THEN parts[1]
       ELSE parts[1] \o sep \o Join(Tail(parts), sep)

\* a < b for str (lexicographic on code points)
RECURSIVE StrLess(_, _)
StrLess(a, b) ==
  IF b = "" THEN FALSE
  ELSE IF a = "" THEN TRUE
       ELSE IF Head(a) = Head(b) THEN StrLess(Tail(a), Tail(b))
            ELSE Code(Head(a)) < Code(Head(b))

\* length of the longest prefix of s made of \w characters
RECURSIVE WordRun(_)
WordRun(s) == IF s = "" \/ ~IsWord(Head(s)) THEN 0 ELSE 1 + WordRun(Tail(s))

\* length of the longest suffix of s made of digits
RECURSIVE DigitTail(_)
DigitTail(s) ==
  IF s = "" \/ ~IsDigit(Ch(s, Len(s))) THEN 0
  ELSE 1 + DigitTail(SubSeq(s, 1, Len(s) - 1))

(***************************************************************************)
(* Attribute values (Dict[str, Any]): tagged records.  A dict keeps its    *)
(* keys in insertion order, so it is a sequence of [k, v] pairs.           *)
(***************************************************************************)
StrV(s) == [t |-> "str", s |-> s, n |-> 0, items |-> <<>>]
IntV(n) == [t |-> "int", s |-> "", n |-> n, items |-> <<>>]
ListV(items) == [t |-> "list", s |-> "", n |-> 0, items |-> items]
DictV(kv) == [t |-> "dict", s |-> "", n |-> 0, items |-> kv]
NoneV == [t |-> "none", s |-> "", n |-> 0, items |-> <<>>]
KV(k, v) == [k |-> k, v |-> v]

DictHas(kv, key) == \E i \in 1..Len(kv) : kv[i].k = key
\* dict.get(key, default)
DictGet(kv, key, default) ==
  IF DictHas(kv, key) THEN kv[CHOOSE i \in 1..Len(kv) : kv[i].k = key].v ELSE default
\* Python truthiness of a value
Truthy(v) ==
  CASE v.t = "str" -> v.s # ""
    [] v.t = "int" -> v.n # 0
    [] v.t = "none" -> FALSE
    [] OTHER -> v.items # <<>>

\* TerraformResource; count 0 stands for None
Resource(type, name, module_path, attributes, count) ==
  [resource_type |-> type, resource_name |-> name, module_path |-> module_path,
   attributes |-> attributes, count |-> count]

full_id(r) ==
  IF r.module_path # ""
  THEN r.module_path \o "." \o r.resource_type \o "." \o r.resource_name
  ELSE r.resource_type \o "." \o r.resource_name

(***************************************************************************)
(* Sets of str.  str hashes are randomised per process (PYTHONHASHSEED),   *)
(* so the iteration order of a set of str is fixed inside one run and      *)
(* differs between runs.  A run draws one seed; the seed decides the order *)
(* in which every set of str is iterated.                                  *)
(***************************************************************************)
HashSeeds == {"h0", "h1"}

\* sorted(S) for a set of str
RECURSIVE SortedStrs(_)
SortedStrs(S) ==
  IF S = {} THEN <<>>
  ELSE LET m == CHOOSE a \in S : \A b \in S \ {a} : StrLess(a, b)
       IN <<m>> \o SortedStrs(S \ {m})

Reverse(q) == [i \in 1..Len(q) |-> q[Len(q) + 1 - i]]

\* list(S) / for e in S, for a set S of str, under hash seed h
SetIterationOrder(S, h) == IF h = "h0" THEN SortedStrs(S) ELSE Reverse(SortedStrs(S))

SeqToSet(q) == {q[i] : i \in 1..Len(q)}
InSeq(e, q) == \E i \in 1..Len(q) : q[i] = e

RECURSIVE FlattenSeq(_)
FlattenSeq(qq) == IF qq = <<>> THEN <<>> ELSE Head(qq) \o FlattenSeq(Tail(qq))

(***************************************************************************)
(* VariableResolver.resolve: re.sub of \$\{(var|local)\.(\w+)\}            *)
(* A resolver is [present, variables, locals]; both tables are dicts of    *)
(* str values.                                                             *)
(***************************************************************************)
NoResolver == [present |-> FALSE, variables |-> <<>>, locals |-> <<>>]

RECURSIVE ResolveStr(_, _)
ResolveStr(rv, s) ==
  IF s = "" THEN ""
  ELSE LET isVar == StartsWith(s, "${var.")
           isLocal == StartsWith(s, "${local.")
           plen == IF isVar THEN 6 ELSE 8
           rest == SubSeq(s, plen + 1, Len(s))
           w == WordRun(rest)
           matched == (isVar \/ isLocal) /\ w >= 1 /\ Len(rest) > w /\ Ch(rest, w + 1) = "}"
           ref_name == SubSeq(rest, 1, w)
           table == IF isVar THEN rv.variables ELSE rv.locals
           whole == SubSeq(s, 1, plen + w + 1)
           after == SubSeq(s, plen + w + 2, Len(s))
       IN IF matched
          THEN (IF DictHas(table, ref_name) THEN DictGet(table, ref_name, NoneV).s ELSE whole)
                 \o ResolveStr(rv, after)
          ELSE Head(s) \o ResolveStr(rv, Tail(s))

(***************************************************************************)
(* ResourceAggregator                                                      *)
(***************************************************************************)
\* one entry of ConfigLoader.get_flat_aggregation_rules()
FlatRule(name, primary, secondary, in_vpc) ==
  [name |-> name, primary |-> primary, secondary |-> secondary, in_vpc |-> in_vpc]

\* _build_aggregation_rules: the internal rule of one configured rule
BuildAggregationRule(fr) ==
  [name |-> fr.name,
   primary |-> fr.primary,
   aggregate |-> fr.secondary,
   icon |-> IF fr.primary # <<>> THEN fr.primary[1] ELSE "",
   display_name |-> Title(Replace(fr.name, "_", " ")),
   is_vpc |-> fr.in_vpc]

BuildAggregationRules(flat) == [i \in 1..Len(flat) |-> BuildAggregationRule(flat[i])]

RuleLastIndex(rules, res_type) ==
  CHOOSE i \in 1..Len(rules) :
    /\ InSeq(res_type, rules[i].primary) \/ InSeq(res_type, rules[i].aggregate)
    /\ \A j \in (i + 1)..Len(rules) :
         ~(InSeq(res_type, rules[j].primary) \/ InSeq(res_type, rules[j].aggregate))

\* _type_to_rule.get(res_type): every registration overwrites the previous
\* one, so the last rule listing the type owns it; "" stands for None
TypeToRule(rules, res_type) ==
  IF \E i \in 1..Len(rules) :
       InSeq(res_type, rules[i].primary) \/ InSeq(res_type, rules[i].aggregate)
  THEN rules[RuleLastIndex(rules, res_type)].name
  ELSE ""

RuleByName(rules, name) == rules[CHOOSE i \in 1..Len(rules) : rules[i].name = name]

(***************************************************************************)
(* Live state (TerraformStateResult): [present, resources], resources a    *)
(* sequence of [address, values]; present = FALSE stands for None.         *)
(***************************************************************************)
NoState == [present |-> FALSE, resources |-> <<>>]
StateResource(address, values) == [address |-> address, values |-> values]

\* length of the longest prefix of s made of digits
RECURSIVE DigitRun(_)
DigitRun(s) == IF s = "" \/ ~IsDigit(Head(s)) THEN 0 ELSE 1 + DigitRun(Tail(s))

\* re.sub(r'\[\d+\]', '', s)
RECURSIVE StripNumericIndex(_)
StripNumericIndex(s) ==
  IF s = "" THEN ""
  ELSE LET rest == Tail(s)
           n == DigitRun(rest)
       IN IF Head(s) = "[" /\ n >= 1 /\ Len(rest) > n /\ Ch(rest, n + 1) = "]"
          THEN StripNumericIndex(SubSeq(rest, n + 2, Len(rest)))
          ELSE Head(s) \o StripNumericIndex(rest)

\* the while loop of map_state_to_resource_id over address.split(".")
RECURSIVE ModuleParts(_)
ModuleParts(parts) ==
  IF Len(parts) >= 2 /\ parts[1] = "module"
  THEN <<parts[2]>> \o ModuleParts(SubSeq(parts, 3, Len(parts)))
  ELSE <<>>
RECURSIVE ResourceParts(_)
ResourceParts(parts) ==
  IF Len(parts) >= 2 /\ parts[1] = "module"
  THEN ResourceParts(SubSeq(parts, 3, Len(parts)))
  ELSE parts

\* map_state_to_resource_id, for addresses without ["key"] indexes
map_state_to_resource_id(state_address) ==
  LET address == StripNumericIndex(state_address)
      parts == Split(address, ".")
  IN IF StartsWith(address, "module.") /\ ModuleParts(parts) # <<>> /\ ResourceParts(parts) # <<>>
     THEN Join(ModuleParts(parts), ".") \o "." \o Join(ResourceParts(parts), ".")
     ELSE address

\* resource_id in state_index
InStateIndex(state_result, id) ==
  /\ state_result.present
  /\ \E i \in 1..Len(state_result.resources) :
       map_state_to_resource_id(state_result.resources[i].address) = id

\* state_index[resource_id]: a later state resource overwrites an earlier one
StateValues(state_result, id) ==
  LET rs == state_result.resources
      i == CHOOSE k \in 1..Len(rs) :
             /\ map_state_to_resource_id(rs[k].address) = id
             /\ \A j \in (k + 1)..Len(rs) : map_state_to_resource_id(rs[j].address) # id
  IN rs[i].values

(***************************************************************************)
(* Subnet references of a resource                                         *)
(***************************************************************************)
\* re.finditer(r'aws_subnet\.(\w+)', s): the set of "aws_subnet.<name>"
RECURSIVE SubnetRefsInStr(_)
SubnetRefsInStr(s) ==
  IF Len(s) < 11 THEN {}
  ELSE LET rest == SubSeq(s, 12, Len(s))
           w == WordRun(rest)
       IN IF SubSeq(s, 1, 11) = "aws_subnet." /\ w >= 1
          THEN {"aws_subnet." \o SubSeq(rest, 1, w)} \cup SubnetRefsInStr(SubSeq(rest, w + 1, Len(rest)))
          ELSE SubnetRefsInStr(Tail(s))

SubnetKeys == <<"subnet_id", "subnet_ids", "subnets", "network_configuration">>

\* _extract_subnet_refs_from_attrs: the references it adds to subnet_ids
RECURSIVE extract_subnet_refs_from_attrs(_, _)
extract_subnet_refs_from_attrs(attrs, depth) ==
  IF depth > 5 THEN {}
  ELSE CASE attrs.t = "dict" ->
              UNION {extract_subnet_refs_from_attrs(DictGet(attrs.items, SubnetKeys[i], NoneV), depth + 1) :
                       i \in {j \in 1..Len(SubnetKeys) : DictHas(attrs.items, SubnetKeys[j])}}
              \cup
              UNION {extract_subnet_refs_from_attrs(attrs.items[i].v, depth + 1) :
                       i \in {j \in 1..Len(attrs.items) : attrs.items[j].v.t \in {"dict", "list"}}}
         [] attrs.t = "list" ->
              UNION {extract_subnet_refs_from_attrs(attrs.items[i], depth + 1) : i \in 1..Len(attrs.items)}
         [] attrs.t = "str" -> SubnetRefsInStr(attrs.s)
         [] OTHER -> {}

\* the "_state_subnet:<id>" entries a value of the state yields
StateSubnetEntries(values) ==
  LET single == DictGet(values, "subnet_id", NoneV)
      FromList(key) ==
        LET l == DictGet(values, key, NoneV)
        IN IF Truthy(l) /\ l.t = "list"
           THEN {"_state_subnet:" \o l.items[i].s : i \in {j \in 1..Len(l.items) : l.items[j].t = "str"}}
           ELSE {}
  IN (IF Truthy(single) /\ single.t = "str" THEN {"_state_subnet:" \o single.s} ELSE {})
       \cup FromList("subnet_ids") \cup FromList("subnets")

\* the set subnet_ids built by _extract_subnet_ids
SubnetIdSet(resources, state_result) ==
  UNION {(IF InStateIndex(state_result, full_id(resources[i]))
          THEN StateSubnetEntries(StateValues(state_result, full_id(resources[i])))
          ELSE {})
         \cup extract_subnet_refs_from_attrs(DictV(resources[i].attributes), 0) :
           i \in 1..Len(resources)}

\* _extract_subnet_ids: list(subnet_ids)
extract_subnet_ids(resources, state_result, h) ==
  SetIterationOrder(SubnetIdSet(resources, state_result), h)

(***************************************************************************)
(* Display names                                                           *)
(***************************************************************************)
\* the name resolution shared by _get_resource_display_name and the non-VPC
\* branch of aggregate
get_resource_display_name(resource, resolver) ==
  LET attr_name == DictGet(resource.attributes, "name", StrV(""))
      fallback_name == resource.resource_name
      resolved_name == IF resolver.present THEN ResolveStr(resolver, attr_name.s) ELSE attr_name.s
      chosen == IF attr_name.t = "str" /\ attr_name.s # "" /\ ~Contains(resolved_name, "${")
                THEN resolved_name ELSE fallback_name
      titled == Title(Replace(chosen, "_", " "))
  IN IF Len(titled) > 20 THEN SubSeq(titled, 1, 17) \o "..." ELSE titled

(***************************************************************************)
(* ResourceAggregator.aggregate                                            *)
(***************************************************************************)
\* LogicalService; resource_id "" stands for None
LogicalService(service_type, name, icon, resources, count, is_vpc_resource, subnet_ids, resource_id) ==
  [service_type |-> service_type, name |-> name, icon_resource_type |-> icon,
   resources |-> resources, count |-> count, is_vpc_resource |-> is_vpc_resource,
   subnet_ids |-> subnet_ids, resource_id |-> resource_id]

\* LogicalService.id
ServiceId(s) == IF s.resource_id # "" THEN s.resource_id ELSE s.service_type \o "." \o s.name

\* the keys of rule_resources in insertion order: the rules owning at least
\* one resource, ordered by their first resource
RECURSIVE RuleResourceKeys(_, _, _)
RuleResourceKeys(rules, resources, seen) ==
  IF resources = <<>> THEN <<>>
  ELSE LET rule_name == TypeToRule(rules, Head(resources).resource_type)
       IN IF rule_name # "" /\ rule_name \notin seen
          THEN <<rule_name>> \o RuleResourceKeys(rules, Tail(resources), seen \cup {rule_name})
          ELSE RuleResourceKeys(rules, Tail(resources), seen)

\* rule_resources[rule_name]
RuleResources(rules, resources, rule_name) ==
  SelectSeq(resources, LAMBDA r : TypeToRule(rules, r.resource_type) = rule_name)

\* a variant of the VPC branch that keeps the primary resources grouped
DeGroupedServicesAsOneGroup(rule, primary_resources, resolver, state_result, h) ==
  <<LogicalService(rule.name,
                   get_resource_display_name(primary_resources[1], resolver),
                   rule.icon,
                   primary_resources,
                   Len(primary_resources),
                   TRUE,
                   extract_subnet_ids(primary_resources, state_result, h),
                   full_id(primary_resources[1]))>>

\* the VPC branch: one service per primary resource
DeGroupedServices(rule, primary_resources, resolver, state_result, h) ==
  [i \in 1..Len(primary_resources) |->
     LogicalService(rule.name,
                    get_resource_display_name(primary_resources[i], resolver),
                    rule.icon,
                    <<primary_resources[i]>>,
                    1,
                    TRUE,
                    extract_subnet_ids(<<primary_resources[i]>>, state_result, h),
                    full_id(primary_resources[i]))]

\* a variant of the non-VPC branch that counts every matched resource
GroupedServiceCountingAll(rule, matched, primary_resources, resolver, state_result, h) ==
  LogicalService(rule.name,
                 get_resource_display_name(primary_resources[1], resolver),
                 rule.icon,
                 matched,
                 Len(matched),
                 FALSE,
                 extract_subnet_ids(matched, state_result, h),
                 "")

\* the non-VPC branch: one service for the rule
GroupedService(rule, matched, primary_resources, resolver, state_result, h) ==
  LogicalService(rule.name,
                 get_resource_display_name(primary_resources[1], resolver),
                 rule.icon,
                 matched,
                 Len(primary_resources),
                 FALSE,
                 extract_subnet_ids(matched, state_result, h),
                 "")

\* the services one iteration of "for rule_name, resources in rule_resources.items()" appends
ServicesOfRule(rule, matched, resolver, state_result, h) ==
  LET primary_resources == SelectSeq(matched, LAMBDA r : InSeq(r.resource_type, rule.primary))
      primary_count == Len(primary_resources)
  IN IF primary_count = 0 THEN <<>>
     ELSE IF rule.is_vpc
          THEN DeGroupedServices(rule, primary_resources, resolver, state_result, h)
          ELSE <<GroupedService(rule, matched, primary_resources, resolver, state_result, h)>>

\* result.services
AggregateServices(rules, resources, resolver, state_result, h) ==
  LET keys == RuleResourceKeys(rules, resources, {})
  IN FlattenSeq([i \in 1..Len(keys) |->
                   ServicesOfRule(RuleByName(rules, keys[i]),
                                  RuleResources(rules, resources, keys[i]),
                                  resolver, state_result, h)])

\* one entry of ConfigLoader.get_logical_connections()
ConnRule(source, target, label, type) ==
  [source |-> source, target |-> target, label |-> label, type |-> type]

LogicalConnection(source_id, target_id, label, connection_type) ==
  [source_id |-> source_id, target_id |-> target_id, label |-> label,
   connection_type |-> connection_type]

\* services_by_type[service_type]
ServicesByType(services, service_type) ==
  SelectSeq(services, LAMBDA s : s.service_type = service_type)

\* a variant that connects the i-th source service to the i-th target service only
ConnectionsOfRulePairedByIndex(conn, services) ==
  LET source_services == ServicesByType(services, conn.source)
      target_services == ServicesByType(services, conn.target)
      n == IF Len(source_services) < Len(target_services)
           THEN Len(source_services) ELSE Len(target_services)
  IN [i \in 1..n |->
        LogicalConnection(ServiceId(source_services[i]), ServiceId(target_services[i]),
                          conn.label, conn.type)]

\* the connections one logical-connection rule appends
ConnectionsOfRule(conn, services) ==
  LET source_services == ServicesByType(services, conn.source)
      target_services == ServicesByType(services, conn.target)
  IN FlattenSeq([i \in 1..Len(source_services) |->
                   [j \in 1..Len(target_services) |->
                      LogicalConnection(ServiceId(source_services[i]),
                                        ServiceId(target_services[j]),
                                        conn.label, conn.type)]])

\* result.connections
AggregateConnections(logical_connections, services) ==
  FlattenSeq([k \in 1..Len(logical_connections) |->
                ConnectionsOfRule(logical_connections[k], services)])

(***************************************************************************)
(* VPCStructureBuilder: detection heuristics                               *)
(***************************************************************************)
LastCh(s) == Ch(s, Len(s))

\* AZ_PATTERNS[0]: [-_]([a-f])$
AzPatLetter(s) ==
  IF Len(s) >= 2 /\ LastCh(s) \in AzLetterSet /\ Ch(s, Len(s) - 1) \in SepSet
  THEN LastCh(s) ELSE ""
\* AZ_PATTERNS[1]: [-_](\d[a-f])$
AzPatDigitLetter(s) ==
  IF Len(s) >= 3 /\ LastCh(s) \in AzLetterSet /\ IsDigit(Ch(s, Len(s) - 1))
       /\ Ch(s, Len(s) - 2) \in SepSet
  THEN SubSeq(s, Len(s) - 1, Len(s)) ELSE ""
\* AZ_PATTERNS[2]: [-_]az(\d)$
AzPatAzDigit(s) ==
  IF Len(s) >= 4 /\ IsDigit(LastCh(s)) /\ SubSeq(s, Len(s) - 2, Len(s) - 1) = "az"
       /\ Ch(s, Len(s) - 3) \in SepSet
  THEN LastCh(s) ELSE ""
\* AZ_PATTERNS[3]: [-_]([a-f])[-_], leftmost match
AzPatMiddle(s) ==
  LET hits == {i \in 1..(Len(s) - 2) :
                 Ch(s, i) \in SepSet /\ Ch(s, i + 1) \in AzLetterSet /\ Ch(s, i + 2) \in SepSet}
  IN IF hits = {} THEN ""
     ELSE Ch(s, (CHOOSE i \in hits : \A j \in hits : i <= j) + 1)

\* the first matching entry of AZ_PATTERNS, "" when none matches
AzPatternSuffix(s) ==
  IF AzPatLetter(s) # "" THEN AzPatLetter(s)
  ELSE IF AzPatDigitLetter(s) # "" THEN AzPatDigitLetter(s)
  ELSE IF AzPatAzDigit(s) # "" THEN AzPatAzDigit(s)
  ELSE AzPatMiddle(s)

\* _detect_availability_zone with sequential_index None; "" stands for None
detect_availability_zone(resource) ==
  LET az == DictGet(resource.attributes, "availability_zone", NoneV)
      name_attr == DictGet(resource.attributes, "name", StrV(resource.resource_name))
      name == IF name_attr.t = "str" THEN name_attr.s ELSE resource.resource_name
      suffix == AzPatternSuffix(Lower(name))
  IN IF Truthy(az) /\ az.t = "str" /\ ~Contains(az.s, "${") THEN az.s
     ELSE IF suffix # "" THEN "detected-" \o suffix
     ELSE ""

\* SUBNET_TYPE_PATTERNS, in dict order
SUBNET_TYPE_PATTERNS ==
  <<[type |-> "public", patterns |-> <<"public", "pub", "external", "ext", "dmz", "bastion">>],
    [type |-> "private", patterns |-> <<"private", "priv", "internal", "int", "app", "compute",
                                        "worker", "backend", "application">>],
    [type |-> "database", patterns |-> <<"database", "db", "rds", "data", "storage", "persistence">>]>>

\* first subnet type having a pattern p with Hit(p); "unknown-none" when none
FirstTypeWith(Hit(_)) ==
  LET hits == {i \in 1..Len(SUBNET_TYPE_PATTERNS) :
                 \E j \in 1..Len(SUBNET_TYPE_PATTERNS[i].patterns) :
                   Hit(SUBNET_TYPE_PATTERNS[i].patterns[j])}
  IN IF hits = {} THEN ""
     ELSE SUBNET_TYPE_PATTERNS[CHOOSE i \in hits : \A j \in hits : i <= j].type

\* _detect_subnet_type, when it returns: type_tag.lower() raises for a truthy
\* tags.Type that is not a str (build)
detect_subnet_type(resource) ==
  LET tags == DictGet(resource.attributes, "tags", DictV(<<>>))
      type_tag == IF tags.t = "dict"
                  THEN DictGet(tags.items, "Type", DictGet(tags.items, "type", StrV("")))
                  ELSE StrV("")
      byTag == IF Truthy(type_tag) /\ type_tag.t = "str"
               THEN FirstTypeWith(LAMBDA p : Lower(type_tag.s) = p) ELSE ""
      name_attr == DictGet(resource.attributes, "name", StrV(""))
      byResName == FirstTypeWith(LAMBDA p : Contains(Lower(resource.resource_name), p))
      byAttrName == IF name_attr.t = "str"
                    THEN FirstTypeWith(LAMBDA p : Contains(Lower(name_attr.s), p)) ELSE ""
  IN IF byTag # "" THEN byTag
     ELSE IF byResName # "" THEN byResName
     ELSE IF byAttrName # "" THEN byAttrName
     ELSE "unknown"

\* _detect_endpoint_type
detect_endpoint_type(resource) ==
  LET endpoint_type == DictGet(resource.attributes, "vpc_endpoint_type", StrV(""))
  IN IF endpoint_type.t = "str" /\ Lower(endpoint_type.s) = "gateway" THEN "gateway"
     ELSE "interface"

\* the loop of _detect_endpoint_service over service_name.split("."):
\* the parts after the last part holding "${" or "}"
RECURSIVE PartsAfterVar(_, _, _)
PartsAfterVar(parts, found_var, service_parts) ==
  IF parts = <<>> THEN service_parts
  ELSE IF Contains(Head(parts), "${") \/ Contains(Head(parts), "}")
       THEN PartsAfterVar(Tail(parts), TRUE, <<>>)
       ELSE PartsAfterVar(Tail(parts), found_var,
                          IF found_var THEN Append(service_parts, Head(parts)) ELSE service_parts)

\* _detect_endpoint_service
detect_endpoint_service(resource) ==
  LET service_name == DictGet(resource.attributes, "service_name", StrV(""))
      parts == Split(service_name.s, ".")
      service_parts == PartsAfterVar(parts, FALSE, <<>>)
  IN IF service_name.t # "str" THEN "unknown"
     ELSE IF Contains(service_name.s, "${") /\ service_parts # <<>> THEN Join(service_parts, ".")
     ELSE IF Len(parts) >= 4 THEN Join(SubSeq(parts, 4, Len(parts)), ".")
     ELSE "unknown"

\* _get_az_short_name
get_az_short_name(az_name) ==
  IF StartsWith(az_name, "detected-") THEN Replace(az_name, "detected-", "")
  ELSE IF Len(az_name) >= 2 /\ LastCh(az_name) \in LowerSet /\ IsDigit(Ch(az_name, Len(az_name) - 1))
       THEN SubSeq(az_name, Len(az_name) - 1, Len(az_name))
  ELSE IF Len(az_name) >= 1 /\ IsAlpha(LastCh(az_name)) THEN LastCh(az_name)
  ELSE az_name

\* _extract_az_suffix; "" stands for None
extract_az_suffix(resource_name) ==
  LET s == Lower(resource_name)
      d == DigitTail(s)
  IN IF AzPatDigitLetter(s) # "" THEN AzPatDigitLetter(s)
     ELSE IF d >= 1 /\ Len(s) > d /\ Ch(s, Len(s) - d) \in SepSet THEN SubSeq(s, Len(s) - d + 1, Len(s))
     ELSE AzPatLetter(s)

(***************************************************************************)
(* VPCStructureBuilder.build                                               *)
(***************************************************************************)
Subnet(resource_id, name, subnet_type, availability_zone, cidr_block, aws_id) ==
  [resource_id |-> resource_id, name |-> name, subnet_type |-> subnet_type,
   availability_zone |-> availability_zone, cidr_block |-> cidr_block, aws_id |-> aws_id]

AvailabilityZone(name, short_name, subnets) ==
  [name |-> name, short_name |-> short_name, subnets |-> subnets]

VPCEndpoint(resource_id, name, endpoint_type, service) ==
  [resource_id |-> resource_id, name |-> name, endpoint_type |-> endpoint_type,
   service |-> service]

\* VPCStructure; present = FALSE stands for None.  raised is "" for a value
\* build returned and the name of the exception when build ended with one.
VPCStructure(vpc_id, name, availability_zones, endpoints) ==
  [present |-> TRUE, vpc_id |-> vpc_id, name |-> name,
   availability_zones |-> availability_zones, endpoints |-> endpoints, raised |-> ""]
NoVPCStructure ==
  [present |-> FALSE, vpc_id |-> "", name |-> "", availability_zones |-> <<>>,
   endpoints |-> <<>>, raised |-> ""]
Raised(exception) == [NoVPCStructure EXCEPT !.raised = exception]

\* attributes.get("name", resource_name), resolved when a resolver is given
ResolvedName(r, resolver) ==
  LET name == DictGet(r.attributes, "name", StrV(r.resource_name))
  IN IF name.t = "str" /\ resolver.present THEN ResolveStr(resolver, name.s) ELSE name.s

\* the entry of all_subnets built for one aws_subnet resource: [r, subnet, az_key],
\* az_key "" standing for None
SubnetEntry(r, resolver, state_result) ==
  LET in_state == InStateIndex(state_result, full_id(r))
      values == IF in_state THEN StateValues(state_result, full_id(r)) ELSE <<>>
      state_az == DictGet(values, "availability_zone", NoneV)
      explicit_az == IF in_state /\ Truthy(state_az) /\ state_az.t = "str" THEN state_az.s
                     ELSE detect_availability_zone(r)
      suffix == extract_az_suffix(r.resource_name)
      az_key == IF explicit_az # "" /\ ~StartsWith(explicit_az, "detected-") THEN explicit_az
                ELSE IF suffix # "" THEN "detected-" \o suffix
                ELSE ""
  IN [r |-> r,
      subnet |-> Subnet(full_id(r), ResolvedName(r, resolver), detect_subnet_type(r),
                        IF az_key # "" THEN az_key ELSE "unknown",
                        DictGet(r.attributes, "cidr_block", StrV("")).s,
                        DictGet(values, "id", StrV("")).s),
      az_key |-> az_key,
      explicit |-> explicit_az # "" /\ ~StartsWith(explicit_az, "detected-")]

AZ_LETTERS == "abcdef"

Max(a, b) == IF a >= b THEN a ELSE b
Min(a, b) == IF a <= b THEN a ELSE b
SetMax(S) == CHOOSE m \in S : \A e \in S : e <= m

\* az_names
AzNames(all_subnets) ==
  LET explicit_azs == {all_subnets[i].az_key : i \in {j \in 1..Len(all_subnets) : all_subnets[j].explicit}}
      by_count == SetMax({1} \cup {all_subnets[i].r.count : i \in 1..Len(all_subnets)})
      detected_azs == {all_subnets[i].az_key :
                         i \in {j \in 1..Len(all_subnets) : StartsWith(all_subnets[j].az_key, "detected-")}}
      TypeCount(t) == Cardinality({i \in 1..Len(all_subnets) : all_subnets[i].subnet.subnet_type = t})
      num_azs == IF by_count # 1 THEN by_count
                 ELSE IF detected_azs # {} THEN Cardinality(detected_azs)
                 ELSE IF all_subnets # <<>>
                      THEN SetMax({TypeCount(all_subnets[i].subnet.subnet_type) : i \in 1..Len(all_subnets)})
                      ELSE 1
  IN IF explicit_azs # {} THEN SortedStrs(explicit_azs)
     ELSE [i \in 1..num_azs |-> "detected-" \o Ch(AZ_LETTERS, ((i - 1) % Len(AZ_LETTERS)) + 1)]

type_order(t) ==
  CASE t = "public" -> 0 [] t = "private" -> 1 [] t = "database" -> 2 [] OTHER -> 3

\* the sort key (type_order, name) of an all_subnets entry: a < b
EntryLess(a, b) ==
  \/ type_order(a.subnet.subnet_type) < type_order(b.subnet.subnet_type)
  \/ /\ type_order(a.subnet.subnet_type) = type_order(b.subnet.subnet_type)
     /\ StrLess(a.subnet.name, b.subnet.name)

\* sorted(q, key=...): stable
RECURSIVE SortEntries(_)
SortEntries(q) ==
  IF q = <<>> THEN <<>>
  ELSE LET rest == SortEntries(SubSeq(q, 1, Len(q) - 1))
           e == q[Len(q)]
           \* e goes before the first element greater than it
           pos == IF \E i \in 1..Len(rest) : EntryLess(e, rest[i])
                  THEN (CHOOSE i \in 1..Len(rest) :
                          EntryLess(e, rest[i]) /\ \A j \in 1..(i - 1) : ~EntryLess(e, rest[j])) - 1
                  ELSE Len(rest)
       IN SubSeq(rest, 1, pos) \o <<e>> \o SubSeq(rest, pos + 1, Len(rest))

\* index of the AZ a sorted entry is appended to in the first distribution
\* loop; 0 when the subnet goes to unassigned.  az_map[name] is the last AZ
\* created with that name.
AssignedAz(entry, azs) ==
  LET named == {i \in 1..Len(azs) : azs[i].name = entry.az_key}
      suffix == Replace(entry.az_key, "detected-", "")
      matching == {i \in 1..Len(azs) : azs[i].short_name = suffix \/ Contains(azs[i].short_name, suffix)}
  IN IF entry.az_key # "" /\ named # {} THEN SetMax(named)
     ELSE IF entry.az_key # "" /\ StartsWith(entry.az_key, "detected-") /\ matching # {}
          THEN CHOOSE i \in matching : \A j \in matching : i <= j
     ELSE 0

\* the subnets of unassigned having a type, in order
UnassignedOfType(unassigned, t) == SelectSeq(unassigned, LAMBDA sn : sn.subnet_type = t)

\* a variant of the round-robin loop that appends every unassigned subnet to
\* the first AZ
RoundRobinIntoFirstAz(unassigned, num_azs) ==
  [k \in 1..Len(unassigned) |-> [az_idx |-> 1, subnet |-> unassigned[k]]]

\* the (subnet, AZ index) appends of the round-robin loop, in order
RoundRobin(unassigned, num_azs) ==
  LET types == <<"public", "private", "database", "unknown">>
      \* sorted(keys, key=type_order): a type outside the four known ones cannot occur
      OfType(t) ==
        LET l == UnassignedOfType(unassigned, t)
        IN [idx \in 1..Len(l) |->
              [az_idx |-> ((idx - 1) % num_azs) + 1,
               subnet |-> IF Len(l) > 1
                          THEN [l[idx] EXCEPT !.name =
                                  @ \o " (" \o Ch(AZ_LETTERS, ((idx - 1) % num_azs) + 1) \o ")"]
                          ELSE l[idx]]]
  IN FlattenSeq([k \in 1..Len(types) |-> OfType(types[k])])

\* a variant of the distribution without the round-robin loop: the
\* unassigned subnets stay out of the structure
DistributeSubnetsByKeyOnly(all_subnets, az_names) ==
  LET empty == [i \in 1..Len(az_names) |->
                  AvailabilityZone(az_names[i], get_az_short_name(az_names[i]), <<>>)]
      sorted == SortEntries(all_subnets)
      direct(i) == SelectSeq(sorted, LAMBDA e : AssignedAz(e, empty) = i)
  IN [i \in 1..Len(az_names) |->
        [empty[i] EXCEPT !.subnets = [k \in 1..Len(direct(i)) |-> direct(i)[k].subnet]]]

\* availability_zones after both distribution loops
DistributeSubnets(all_subnets, az_names) ==
  LET empty == [i \in 1..Len(az_names) |->
                  AvailabilityZone(az_names[i], get_az_short_name(az_names[i]), <<>>)]
      sorted == SortEntries(all_subnets)
      direct(i) == SelectSeq(sorted, LAMBDA e : AssignedAz(e, empty) = i)
      unassigned_entries == SelectSeq(sorted, LAMBDA e : AssignedAz(e, empty) = 0)
      unassigned == [k \in 1..Len(unassigned_entries) |-> unassigned_entries[k].subnet]
      rr == RoundRobin(unassigned, Len(az_names))
      rrOf(i) == SelectSeq(rr, LAMBDA a : a.az_idx = i)
  IN [i \in 1..Len(az_names) |->
        [empty[i] EXCEPT !.subnets =
           [k \in 1..Len(direct(i)) |-> direct(i)[k].subnet]
             \o [k \in 1..Len(rrOf(i)) |-> rrOf(i)[k].subnet]]]

\* endpoints
CollectEndpoints(resources, resolver) ==
  LET eps == SelectSeq(resources, LAMBDA r : r.resource_type = "aws_vpc_endpoint")
  IN [i \in 1..Len(eps) |->
        VPCEndpoint(full_id(eps[i]), ResolvedName(eps[i], resolver),
                    detect_endpoint_type(eps[i]), detect_endpoint_service(eps[i]))]

\* tags.get("Type", tags.get("type", "")) of a resource whose tags are a dict
TypeTag(resource) ==
  LET tags == DictGet(resource.attributes, "tags", DictV(<<>>))
  IN IF tags.t = "dict"
     THEN DictGet(tags.items, "Type", DictGet(tags.items, "type", StrV("")))
     ELSE StrV("")

\* the subnets the first distribution loop leaves unassigned, in sorted order
Unassigned(all_subnets, az_names) ==
  LET empty == [i \in 1..Len(az_names) |->
                  AvailabilityZone(az_names[i], get_az_short_name(az_names[i]), <<>>)]
      entries == SelectSeq(SortEntries(all_subnets), LAMBDA e : AssignedAz(e, empty) = 0)
  IN [k \in 1..Len(entries) |-> entries[k].subnet]

\* az_letters[az_idx] of the round-robin loop raises IndexError: more than
\* one subnet of a type is unassigned and az_idx reaches len(az_letters)
RoundRobinRaises(unassigned, num_azs) ==
  \E t \in {"public", "private", "database", "unknown"} :
    LET l == UnassignedOfType(unassigned, t)
    IN /\ Len(l) > 1
       /\ \E idx \in 1..Len(l) : ((idx - 1) % num_azs) + 1 > Len(AZ_LETTERS)

\* VPCStructureBuilder.build.  It ends with AttributeError when
\* _detect_subnet_type calls type_tag.lower() on a truthy tag that is not a
\* str, and with IndexError when the round-robin loop does.
build(resources, resolver, state_result) ==
  LET vpcs == SelectSeq(resources, LAMBDA r : r.resource_type = "aws_vpc")
      subnet_resources == SelectSeq(resources, LAMBDA r : r.resource_type = "aws_subnet")
      Structure(all_subnets, az_names) ==
        IF vpcs = <<>> THEN NoVPCStructure
        ELSE IF \E i \in 1..Len(subnet_resources) :
                  /\ Truthy(TypeTag(subnet_resources[i]))
                  /\ TypeTag(subnet_resources[i]).t # "str"
             THEN Raised("AttributeError")
        ELSE IF RoundRobinRaises(Unassigned(all_subnets, az_names), Len(az_names))
             THEN Raised("IndexError")
        ELSE VPCStructure(full_id(vpcs[1]),
                          ResolvedName(vpcs[1], resolver),
                          DistributeSubnets(all_subnets, az_names),
                          CollectEndpoints(resources, resolver))
      WithSubnets(all_subnets) == Structure(all_subnets, AzNames(all_subnets))
  IN WithSubnets([i \in 1..Len(subnet_resources) |->
                    SubnetEntry(subnet_resources[i], resolver, state_result)])

(***************************************************************************)
(* LayoutConfig and the responsive scale                                   *)
(***************************************************************************)
\* 1 pixel, in coordinate units: the layout divides by 2 and by the number
\* of AZs, and a multiple of 2, 3, 4, 5, 6 and 7 keeps those divisions exact
Unit == 2 * 2 * 3 * 5 * 7
Px(n) == n * Unit

\* scale factors are exact fractions with denominator ScaleDen
ScaleDen == 4 * 10000

\* LayoutConfig(): the dataclass defaults
DefaultLayoutConfig ==
  [canvas_width |-> 1400, canvas_height |-> 900, padding |-> 30, icon_size |-> 64,
   icon_spacing |-> 40, group_padding |-> 25, label_height |-> 24, row_spacing |-> 100,
   column_spacing |-> 130, min_scale |-> (6 * ScaleDen) \div 10, max_scale |-> (15 * ScaleDen) \div 10]

\* _compute_responsive_scale, as a numerator over ScaleDen
compute_responsive_scale(services, vpc_structure) ==
  LET num_services == Len(services)
      azs == vpc_structure.availability_zones
      num_azs == IF vpc_structure.present THEN Len(azs) ELSE 0
      max_subnets_per_az == IF vpc_structure.present
                            THEN SetMax({0} \cup {Len(azs[i].subnets) : i \in 1..Len(azs)}) ELSE 0
      num_endpoints == IF vpc_structure.present THEN Len(vpc_structure.endpoints) ELSE 0
      service_scale == IF num_services <= 4 THEN 8
                       ELSE IF num_services <= 8 THEN 9
                       ELSE IF num_services <= 15 THEN 10
                       ELSE IF num_services <= 25 THEN 12
                       ELSE 14
      az_factor == IF num_azs >= 3 THEN 11 ELSE 10
      subnet_factor == IF max_subnets_per_az >= 4 THEN 23 ELSE 20
      endpoint_factor == IF num_endpoints >= 4 THEN 21 ELSE 20
  IN service_scale * az_factor * subnet_factor * endpoint_factor

\* int(value * clamped_scale) is computed in binary floating point: for
\* these (value, scale) pairs of the default configuration the float
\* product falls just below the exact integer product and int() yields one
\* less (0.8 * 1.15 is 0.9199999999999999, 1400 * 1.4 is 1959.9999999999998)
FloatShortfall(value, scale) ==
  IF <<value, scale>> \in {<<900, 36800>>, <<1400, 46000>>, <<100, 46000>>,
                           <<1400, 50600>>, <<1400, 55200>>, <<1400, 56000>>}
  THEN 1 ELSE 0

ScaleInt(value, scale) == ((value * scale) \div ScaleDen) - FloatShortfall(value, scale)

\* LayoutConfig.scaled
scaled(base, scale) ==
  LET clamped_scale == Max(base.min_scale, Min(base.max_scale, scale))
  IN [canvas_width |-> ScaleInt(base.canvas_width, clamped_scale),
      canvas_height |-> ScaleInt(base.canvas_height, clamped_scale),
      padding |-> ScaleInt(base.padding, clamped_scale),
      icon_size |-> ScaleInt(base.icon_size, clamped_scale),
      icon_spacing |-> ScaleInt(base.icon_spacing, clamped_scale),
      group_padding |-> ScaleInt(base.group_padding, clamped_scale),
      label_height |-> ScaleInt(base.label_height, clamped_scale),
      row_spacing |-> ScaleInt(base.row_spacing, clamped_scale),
      column_spacing |-> ScaleInt(base.column_spacing, clamped_scale),
      min_scale |-> base.min_scale,
      max_scale |-> base.max_scale]

(***************************************************************************)
(* Service categories of compute_layout / _estimate_required_height        *)
(***************************************************************************)
EdgeTypes == {"cloudfront", "waf", "route53", "acm", "cognito"}
VpcTypes == {"alb", "ecs", "ec2", "security_groups", "security", "vpc", "internet_gateway",
             "nat_gateway"}
DataTypes == {"s3", "dynamodb", "mongodb"}
MessagingTypes == {"sqs", "sns", "eventbridge"}
SecurityTypes == {"kms", "secrets", "secrets_manager", "iam"}

edge_services(services) == SelectSeq(services, LAMBDA s : s.service_type \in EdgeTypes)
vpc_internal(services) ==
  SelectSeq(services, LAMBDA s : s.service_type \in VpcTypes /\ s.service_type # "vpc")
\* data_services + messaging_services + security_services + other_services
non_vpc_services(services) ==
  SelectSeq(services, LAMBDA s : s.service_type \in DataTypes)
    \o SelectSeq(services, LAMBDA s : s.service_type \in MessagingTypes)
    \o SelectSeq(services, LAMBDA s : s.service_type \in SecurityTypes)
    \o SelectSeq(services, LAMBDA s : s.service_type \notin
                   (EdgeTypes \cup VpcTypes \cup DataTypes \cup MessagingTypes \cup SecurityTypes))
services_with_subnets(services) == SelectSeq(vpc_internal(services), LAMBDA s : s.subnet_ids # <<>>)
services_without_subnets(services) == SelectSeq(vpc_internal(services), LAMBDA s : s.subnet_ids = <<>>)

(***************************************************************************)
(* Heights (plain pixels)                                                  *)
(***************************************************************************)
\* a variant of _compute_vpc_height that leaves the endpoint column out
compute_vpc_height_by_subnets(cfg, vpc_structure, has_vpc_services, with_subnets) ==
  LET azs == vpc_structure.availability_zones
      services_row_height == IF has_vpc_services THEN cfg.icon_size + 50 ELSE 0
      subnets_with_services ==
        UNION {SeqToSet(with_subnets[i].subnet_ids) : i \in 1..Len(with_subnets)}
      SubnetH(subnet) ==
        IF subnet.resource_id \in subnets_with_services
             \/ (subnet.aws_id # "" /\ ("_state_subnet:" \o subnet.aws_id) \in subnets_with_services)
        THEN cfg.icon_size + 56 ELSE 60
      RECURSIVE SumH(_)
      SumH(subnets) == IF subnets = <<>> THEN 0
                       ELSE SubnetH(Head(subnets)) + 10 + SumH(Tail(subnets))
      max_az_content_height == SetMax({0} \cup {SumH(azs[i].subnets) : i \in 1..Len(azs)})
  IN IF ~vpc_structure.present \/ azs = <<>> THEN 180
     ELSE Max(200, cfg.group_padding + 30 + services_row_height + 30
                     + max_az_content_height + 40)

\* _compute_vpc_height
compute_vpc_height(cfg, vpc_structure, has_vpc_services, with_subnets) ==
  LET azs == vpc_structure.availability_zones
      subnet_padding == 10
      az_header_height == 30
      vpc_header_height == cfg.group_padding + 30
      base_padding == 40
      services_row_height == IF has_vpc_services THEN cfg.icon_size + 50 ELSE 0
      empty_subnet_height == 60
      service_subnet_height == cfg.icon_size + 56
      subnets_with_services ==
        UNION {SeqToSet(with_subnets[i].subnet_ids) : i \in 1..Len(with_subnets)}
      SubnetH(subnet) ==
        IF subnet.resource_id \in subnets_with_services
             \/ (subnet.aws_id # "" /\ ("_state_subnet:" \o subnet.aws_id) \in subnets_with_services)
        THEN service_subnet_height ELSE empty_subnet_height
      RECURSIVE SumH(_)
      SumH(subnets) == IF subnets = <<>> THEN 0
                       ELSE SubnetH(Head(subnets)) + subnet_padding + SumH(Tail(subnets))
      max_az_content_height == SetMax({0} \cup {SumH(azs[i].subnets) : i \in 1..Len(azs)})
      height_for_subnets == vpc_header_height + services_row_height + az_header_height
                              + max_az_content_height + base_padding
      num_endpoints == Len(vpc_structure.endpoints)
      endpoint_spacing == 72
      height_for_endpoints ==
        IF num_endpoints > 0
        THEN vpc_header_height + services_row_height + (num_endpoints * endpoint_spacing)
               + base_padding + 20
        ELSE 0
  IN IF ~vpc_structure.present \/ azs = <<>> THEN 180
     ELSE Max(200, Max(height_for_subnets, height_for_endpoints))

\* vpc_height as compute_layout and _estimate_required_height both compute it
VpcHeight(cfg, services, vpc_structure) ==
  IF vpc_structure.present
  THEN compute_vpc_height(cfg, vpc_structure, services_without_subnets(services) # <<>>,
                          services_with_subnets(services))
  ELSE 180

has_vpc_content(services, vpc_structure) ==
  vpc_internal(services) # <<>> \/ vpc_structure.present

\* cols of the connection-aware grid
GridCols(cfg) ==
  Max(1, (cfg.canvas_width - 2 * (cfg.padding + 50)) \div (cfg.icon_size + 50))

\* _estimate_required_height
estimate_required_height(cfg, services, vpc_structure) ==
  LET n == Len(non_vpc_services(services))
      cols == GridCols(cfg)
      rows == (n + cols - 1) \div cols
  IN (cfg.padding + 40)
       + (IF edge_services(services) # <<>> THEN cfg.row_spacing + 20 ELSE 0)
       + (IF has_vpc_content(services, vpc_structure)
          THEN VpcHeight(cfg, services, vpc_structure) + 40 ELSE 0)
       + (IF n > 0 THEN rows * (cfg.icon_size + 50) + 40 ELSE 0)
       + (cfg.padding + 40)

(***************************************************************************)
(* Positions: Dict[str, Position] is a function on the set of its keys;    *)
(* coordinates are in units of 1/Unit pixel.                               *)
(***************************************************************************)
Position(x, y, width, height) == [x |-> x, y |-> y, width |-> width, height |-> height]

EmptyDict == [k \in {} |-> Position(0, 0, 0, 0)]
\* d[k] = v
Put(d, k, v) == [kk \in DOMAIN d \cup {k} |-> IF kk = k THEN v ELSE d[kk]]

\* ServiceGroup; services holds the ids of the group's services
ServiceGroup(group_type, name, service_ids, position) ==
  [group_type |-> group_type, name |-> name, services |-> service_ids, position |-> position]

\* _center_row_start
center_row_start(cfg, num_items, min_x, max_x) ==
  LET available_width == max_x - min_x
      total_items_width == Px(num_items * cfg.icon_size + (num_items - 1) * cfg.icon_spacing)
  IN min_x + (available_width - total_items_width) \div 2

\* a row of icons: "positions[service.id] = Position(x, y, icon, icon); x += column_spacing"
RECURSIVE PlaceRow(_, _, _, _, _)
PlaceRow(cfg, positions, row, x, y) ==
  IF row = <<>> THEN positions
  ELSE PlaceRow(cfg,
                Put(positions, ServiceId(Head(row)),
                    Position(x, y, Px(cfg.icon_size), Px(cfg.icon_size))),
                Tail(row), x + Px(cfg.column_spacing), y)

(***************************************************************************)
(* _layout_subnets and _layout_vpc_structure                               *)
(***************************************************************************)
\* aws_id_to_resource_id as a sequence of [k, v] in assignment order
AwsIdPairs(azs) ==
  FlattenSeq([i \in 1..Len(azs) |->
    LET with_id == SelectSeq(azs[i].subnets, LAMBDA sn : sn.aws_id # "")
    IN [k \in 1..Len(with_id) |-> [k |-> with_id[k].aws_id, v |-> with_id[k].resource_id]]])
AwsIdKnown(pairs, aws_id) == \E i \in 1..Len(pairs) : pairs[i].k = aws_id
\* aws_id_to_resource_id[aws_id]: the last assignment
AwsIdLookup(pairs, aws_id) ==
  pairs[CHOOSE i \in 1..Len(pairs) :
          pairs[i].k = aws_id /\ \A j \in (i + 1)..Len(pairs) : pairs[j].k # aws_id].v

\* the subnet resource ids under which services_by_subnet lists a service, one
\* per entry of its subnet_ids that yields an entry
ServiceSubnetKeys(service, pairs) ==
  LET keyed == SelectSeq(service.subnet_ids,
                 LAMBDA id : ~StartsWith(id, "_state_subnet:")
                             \/ AwsIdKnown(pairs, SubSeq(id, 15, Len(id))))
  IN [i \in 1..Len(keyed) |->
        IF StartsWith(keyed[i], "_state_subnet:")
        THEN AwsIdLookup(pairs, SubSeq(keyed[i], 15, Len(keyed[i])))
        ELSE keyed[i]]

\* services_by_subnet.get(resource_id, [])
ServicesBySubnet(with_subnets, pairs, resource_id) ==
  FlattenSeq([i \in 1..Len(with_subnets) |->
    LET hits == SelectSeq(ServiceSubnetKeys(with_subnets[i], pairs), LAMBDA key : key = resource_id)
    IN [k \in 1..Len(hits) |-> with_subnets[i]]])

\* "for service in subnet_services": a service not yet in positions is put
\* at service_x, which then advances
RECURSIVE PlaceSubnetServices(_, _, _, _, _)
PlaceSubnetServices(cfg, positions, subnet_services, service_x, service_y) ==
  IF subnet_services = <<>> THEN positions
  ELSE IF ServiceId(Head(subnet_services)) \in DOMAIN positions
       THEN PlaceSubnetServices(cfg, positions, Tail(subnet_services), service_x, service_y)
       ELSE PlaceSubnetServices(cfg,
              Put(positions, ServiceId(Head(subnet_services)),
                  Position(service_x, service_y, Px(cfg.icon_size), Px(cfg.icon_size))),
              Tail(subnet_services), service_x + Px(cfg.icon_size + 26), service_y)

\* "for subnet in az.subnets"
RECURSIVE PlaceSubnets(_, _, _, _, _, _, _)
PlaceSubnets(cfg, positions, subnets, az_pos, subnet_y, with_subnets, pairs) ==
  IF subnets = <<>> THEN positions
  ELSE LET subnet == Head(subnets)
           subnet_padding == Px(10)
           subnet_height == Px(60)
           subnet_width == az_pos.width - 2 * subnet_padding
           subnet_services == ServicesBySubnet(with_subnets, pairs, subnet.resource_id)
           actual_subnet_height ==
             IF subnet_services # <<>> THEN Max(subnet_height, Px(cfg.icon_size + 56))
             ELSE subnet_height
           withSubnet == Put(positions, subnet.resource_id,
                             Position(az_pos.x + subnet_padding, subnet_y, subnet_width,
                                      actual_subnet_height))
           service_x == az_pos.x + subnet_padding + Px(15)
           service_y == subnet_y + Px(8) + (actual_subnet_height - Px(cfg.icon_size + 44)) \div 2
       IN PlaceSubnets(cfg,
                       PlaceSubnetServices(cfg, withSubnet, subnet_services, service_x, service_y),
                       Tail(subnets), az_pos, subnet_y + actual_subnet_height + subnet_padding,
                       with_subnets, pairs)

\* _layout_subnets
layout_subnets(cfg, az, az_pos, positions, with_subnets, pairs) ==
  PlaceSubnets(cfg, positions, az.subnets, az_pos, az_pos.y + Px(30), with_subnets, pairs)

\* the AZ boxes advanced by az_width alone ("az_x += az_width")
AzPositionWithoutGap(vpc_structure, vpc_pos, az_start_y, i) ==
  LET num_azs == Len(vpc_structure.availability_zones)
      az_padding == Px(15)
      endpoint_width == Px(90)
      available_width == vpc_pos.width - (2 * az_padding) - endpoint_width
      az_width == (available_width - (num_azs - 1) * az_padding) \div num_azs
  IN Position(vpc_pos.x + az_padding + (i - 1) * az_width,
              az_start_y,
              az_width,
              (vpc_pos.y + vpc_pos.height - Px(20)) - az_start_y)

\* position of the i-th AZ box
AzPosition(vpc_structure, vpc_pos, az_start_y, i) ==
  LET num_azs == Len(vpc_structure.availability_zones)
      az_padding == Px(15)
      endpoint_width == Px(90)
      available_width == vpc_pos.width - (2 * az_padding) - endpoint_width
      az_width == (available_width - (num_azs - 1) * az_padding) \div num_azs
  IN Position(vpc_pos.x + az_padding + (i - 1) * (az_width + az_padding),
              az_start_y,
              az_width,
              (vpc_pos.y + vpc_pos.height - Px(20)) - az_start_y)

\* "for az in vpc_structure.availability_zones": the positions dict after the loop
RECURSIVE PlaceAzs(_, _, _, _, _, _, _)
PlaceAzs(cfg, positions, vpc_structure, vpc_pos, az_start_y, with_subnets, i) ==
  IF i > Len(vpc_structure.availability_zones) THEN positions
  ELSE PlaceAzs(cfg,
                layout_subnets(cfg, vpc_structure.availability_zones[i],
                               AzPosition(vpc_structure, vpc_pos, az_start_y, i),
                               positions, with_subnets,
                               AwsIdPairs(vpc_structure.availability_zones)),
                vpc_structure, vpc_pos, az_start_y, with_subnets, i + 1)

\* "for endpoint in vpc_structure.endpoints"
RECURSIVE PlaceEndpoints(_, _, _, _)
PlaceEndpoints(positions, endpoints, endpoint_x, endpoint_y) ==
  IF endpoints = <<>> THEN positions
  ELSE PlaceEndpoints(Put(positions, Head(endpoints).resource_id,
                          Position(endpoint_x, endpoint_y, Px(80), Px(65))),
                      Tail(endpoints), endpoint_x, endpoint_y + Px(72))

\* _layout_vpc_structure: the positions dict it leaves
layout_vpc_structure_positions(cfg, vpc_structure, vpc_pos, positions, az_start_y, with_subnets) ==
  IF vpc_structure.availability_zones = <<>> THEN positions
  ELSE PlaceEndpoints(PlaceAzs(cfg, positions, vpc_structure, vpc_pos, az_start_y, with_subnets, 1),
                      vpc_structure.endpoints,
                      vpc_pos.x + vpc_pos.width - Px(90) + Px(3),
                      az_start_y + Px(5))

\* _layout_vpc_structure: the 'az' groups it appends
layout_vpc_structure_groups(vpc_structure, vpc_pos, az_start_y) ==
  [i \in 1..Len(vpc_structure.availability_zones) |->
     ServiceGroup("az", "AZ " \o vpc_structure.availability_zones[i].short_name, <<>>,
                  AzPosition(vpc_structure, vpc_pos, az_start_y, i))]

(***************************************************************************)
(* _layout_by_connections                                                  *)
(***************************************************************************)
\* the service type a connection end is attributed to: id.split('.')[0]
IdType(id) == Split(id, ".")[1]

\* _build_connection_graph: graph[t]
ConnectedTypes(services, connections, t) ==
  LET present_types == {services[i].service_type : i \in 1..Len(services)}
      Linked(a, b) == \E k \in 1..Len(connections) :
                        /\ IdType(connections[k].source_id) = a
                        /\ IdType(connections[k].target_id) = b
  IN {u \in present_types : Linked(t, u) \/ Linked(u, t)}

\* by_type.keys(): the types in order of first service
RECURSIVE TypeKeys(_, _)
TypeKeys(services, seen) ==
  IF services = <<>> THEN <<>>
  ELSE IF Head(services).service_type \in seen THEN TypeKeys(Tail(services), seen)
       ELSE <<Head(services).service_type>>
              \o TypeKeys(Tail(services), seen \cup {Head(services).service_type})

\* sorted(keys, key=degree, reverse=True): stable, larger degree first
RECURSIVE SortByDegree(_, _)
\* degree is a function from the keys to their number of connected types
SortByDegree(keys, degree) ==
  IF keys = <<>> THEN <<>>
  ELSE LET rest == SortByDegree(SubSeq(keys, 1, Len(keys) - 1), degree)
           e == keys[Len(keys)]
           pos == IF \E i \in 1..Len(rest) : degree[rest[i]] < degree[e]
                  THEN (CHOOSE i \in 1..Len(rest) :
                          degree[rest[i]] < degree[e]
                          /\ \A j \in 1..(i - 1) : degree[rest[j]] >= degree[e]) - 1
                  ELSE Len(rest)
       IN SubSeq(rest, 1, pos) \o <<e>> \o SubSeq(rest, pos + 1, Len(rest))

\* the loop state of _layout_by_connections before the first type
GridStart(positions) ==
  [placed_positions |-> [t \in {} |-> <<0, 0>>], grid |-> {}, current_row |-> 0,
   current_col |-> 0, positions |-> positions]

\* the cell chosen for a type: adjacent to the first already-placed connected
\* type met when iterating the set connected_types, else the row/column cursor
BestCell(g, connected_order, cols) ==
  LET placed == SelectSeq(connected_order, LAMBDA ct : ct \in DOMAIN g.placed_positions)
      ct_row == g.placed_positions[placed[1]][1]
      ct_col == g.placed_positions[placed[1]][2]
      candidates == <<<<ct_row, ct_col + 1>>, <<ct_row + 1, ct_col>>,
                      <<ct_row, ct_col - 1>>, <<ct_row + 1, ct_col + 1>>>>
      free == {k \in 1..4 : candidates[k][2] >= 0 /\ candidates[k][2] < cols
                            /\ candidates[k] \notin g.grid}
      best == IF placed # <<>> /\ free # {}
              THEN candidates[CHOOSE k \in free : \A j \in free : k <= j]
              ELSE <<g.current_row, g.current_col>>
  IN IF best[2] >= cols THEN <<g.current_row + 1, 0>> ELSE best

\* the cell of the i-th (from 0) service of a type placed at best
ServiceCell(best, i, cols) ==
  IF best[2] + i >= cols
  THEN <<best[1] + ((best[2] + i) \div cols), (best[2] + i) % cols>>
  ELSE <<best[1], best[2] + i>>

\* "for i, service in enumerate(type_services)"
RECURSIVE PlaceTypeServices(_, _, _, _, _, _, _, _)
PlaceTypeServices(cfg, g, type_services, i, best, cols, start_x, start_y) ==
  IF i >= Len(type_services) THEN g
  ELSE LET cell == ServiceCell(best, i, cols)
           service_width == Px(cfg.icon_size + 50)
           service_height == Px(cfg.icon_size + 50)
       IN PlaceTypeServices(cfg,
            [g EXCEPT !.positions =
                        Put(@, ServiceId(type_services[i + 1]),
                            Position(start_x + cell[2] * service_width,
                                     start_y + cell[1] * service_height,
                                     Px(cfg.icon_size), Px(cfg.icon_size))),
                      !.grid = @ \cup {cell},
                      !.current_row = Max(@, cell[1])],
            type_services, i + 1, best, cols, start_x, start_y)

\* one iteration of "for service_type in sorted_types"
PlaceType(cfg, g, service_type, services, connections, cols, start_x, start_y, h) ==
  LET type_services == ServicesByType(services, service_type)
      connected_order == SetIterationOrder(ConnectedTypes(services, connections, service_type), h)
      best == BestCell(g, connected_order, cols)
      after == PlaceTypeServices(cfg, g, type_services, 0, best, cols, start_x, start_y)
  IN [after EXCEPT !.placed_positions =
                     [t \in DOMAIN @ \cup {service_type} |->
                        IF t = service_type THEN best ELSE @[t]],
                   !.current_row = IF best[2] + Len(type_services) >= cols
                                   THEN best[1] + 1 ELSE @,
                   !.current_col = IF best[2] + Len(type_services) >= cols
                                   THEN 0 ELSE best[2] + Len(type_services)]

RECURSIVE PlaceTypes(_, _, _, _, _, _, _, _, _)
PlaceTypes(cfg, g, sorted_types, services, connections, cols, start_x, start_y, h) ==
  IF sorted_types = <<>> THEN g
  ELSE PlaceTypes(cfg,
                  PlaceType(cfg, g, Head(sorted_types), services, connections, cols,
                            start_x, start_y, h),
                  Tail(sorted_types), services, connections, cols, start_x, start_y, h)

\* sorted_types
SortedTypes(services, connections) ==
  LET keys == TypeKeys(services, {})
  IN SortByDegree(keys,
       [t \in SeqToSet(keys) |-> Cardinality(ConnectedTypes(services, connections, t))])

\* _layout_by_connections: the loop state after the last type
layout_by_connections(cfg, services, connections, start_x, start_y, positions, h) ==
  PlaceTypes(cfg, GridStart(positions), SortedTypes(services, connections), services,
             connections, GridCols(cfg), start_x, start_y, h)

(***************************************************************************)
(* LayoutEngine.compute_layout                                             *)
(***************************************************************************)
\* the result of compute_layout: positions, groups, the canvas height
\* (actual_canvas_height) and the scaled config left in self.config
compute_layout(base_config, services, connections, vpc_structure, h) ==
  LET cfg == scaled(base_config, compute_responsive_scale(services, vpc_structure))
      estimated_height == estimate_required_height(cfg, services, vpc_structure)
      actual_canvas_height == Max(cfg.canvas_height, estimated_height)
      aws_cloud == ServiceGroup("aws_cloud", "AWS Cloud", <<>>,
                     Position(Px(cfg.padding), Px(cfg.padding),
                              Px(cfg.canvas_width - 2 * cfg.padding),
                              Px(actual_canvas_height - 2 * cfg.padding)))
      edge == edge_services(services)
      y_edge == Px(cfg.padding + 40)
      p1 == IF edge # <<>>
            THEN PlaceRow(cfg, EmptyDict, edge,
                          center_row_start(cfg, Len(edge), Px(cfg.padding),
                                           Px(cfg.canvas_width - cfg.padding)),
                          y_edge)
            ELSE EmptyDict
      y_vpc == y_edge + Px(cfg.row_spacing + 20)
      has_vpc == has_vpc_content(services, vpc_structure)
      vpc_x == Px(cfg.padding + 50)
      vpc_width == Px(cfg.canvas_width - 2 * (cfg.padding + 50))
      with_subnets == services_with_subnets(services)
      without_subnets == services_without_subnets(services)
      vpc_height == VpcHeight(cfg, services, vpc_structure)
      vpc_pos == Position(vpc_x, y_vpc, vpc_width, Px(vpc_height))
      vpc_group == ServiceGroup("vpc", "VPC",
                     [i \in 1..Len(vpc_internal(services)) |-> ServiceId(vpc_internal(services)[i])],
                     vpc_pos)
      services_row_y == y_vpc + Px(cfg.group_padding + 30)
      p2 == IF has_vpc /\ without_subnets # <<>>
            THEN PlaceRow(cfg, p1, without_subnets,
                          center_row_start(cfg, Len(without_subnets),
                                           vpc_x + Px(cfg.group_padding),
                                           vpc_x + vpc_width - Px(cfg.group_padding)),
                          services_row_y)
            ELSE p1
      az_start_y == IF without_subnets # <<>> THEN services_row_y + Px(cfg.icon_size + 50)
                    ELSE services_row_y
      p3 == IF has_vpc /\ vpc_structure.present
            THEN layout_vpc_structure_positions(cfg, vpc_structure, vpc_pos, p2, az_start_y,
                                                with_subnets)
            ELSE p2
      az_groups == IF has_vpc /\ vpc_structure.present
                   THEN layout_vpc_structure_groups(vpc_structure, vpc_pos, az_start_y)
                   ELSE <<>>
      vpc_bottom_y == IF has_vpc THEN y_vpc + Px(vpc_height + 40) ELSE y_vpc
      non_vpc == non_vpc_services(services)
      p4 == IF non_vpc # <<>>
            THEN layout_by_connections(cfg, non_vpc, connections, Px(cfg.padding + 50),
                                       vpc_bottom_y, p3, h).positions
            ELSE p3
  IN [positions |-> p4,
      groups |-> <<aws_cloud>> \o (IF has_vpc THEN <<vpc_group>> ELSE <<>>) \o az_groups,
      canvas_height |-> actual_canvas_height,
      config |-> cfg]

(***************************************************************************)
(* TerraformParser._extract_relationships (parser.py)                      *)
(* A label or a value that is None in Python is "" / NoneV here.           *)
(***************************************************************************)
\* str(n) for an int
RECURSIVE IntStr(_)
IntStr(n) ==
  IF n < 0 THEN "-" \o IntStr(0 - n)
  ELSE IF n < 10 THEN Ch(DigitChars, n + 1)
       ELSE IntStr(n \div 10) \o Ch(DigitChars, (n % 10) + 1)

RECURSIVE DigitsValue(_, _)
DigitsValue(s, acc) ==
  IF s = "" THEN acc ELSE DigitsValue(Tail(s), 10 * acc + IndexIn(DigitChars, Head(s)) - 1)

\* int(v): [ok, n]; ok is FALSE where int() raises TypeError or ValueError.
\* A str converts when it is an optional sign followed by decimal digits.
ParseInt(v) ==
  LET body == IF v.s # "" /\ Head(v.s) \in {"-", "+"} THEN Tail(v.s) ELSE v.s
  IN CASE v.t = "int" -> [ok |-> TRUE, n |-> v.n]
       [] v.t = "str" /\ body # "" /\ \A i \in 1..Len(body) : IsDigit(Ch(body, i)) ->
            [ok |-> TRUE,
             n |-> IF Head(v.s) = "-" THEN 0 - DigitsValue(body, 0) ELSE DigitsValue(body, 0)]
       [] OTHER -> [ok |-> FALSE, n |-> 0]

RECURSIVE Upper(_)
Upper(s) == IF s = "" THEN "" ELSE UpperCh(Head(s)) \o Upper(Tail(s))

\* repr(v) and str(v) of an attribute value (str values without quotes or
\* escapes in them)
RECURSIVE PyRepr(_)
PyRepr(v) ==
  CASE v.t = "str" -> "'" \o v.s \o "'"
    [] v.t = "int" -> IntStr(v.n)
    [] v.t = "none" -> "None"
    [] v.t = "list" -> "[" \o Join([i \in 1..Len(v.items) |-> PyRepr(v.items[i])], ", ") \o "]"
    [] v.t = "dict" ->
         "{" \o Join([i \in 1..Len(v.items) |->
                        "'" \o v.items[i].k \o "': " \o PyRepr(v.items[i].v)], ", ") \o "}"
PyStr(v) == IF v.t = "str" THEN v.s ELSE PyRepr(v)

\* the "{from_port}" of an f-string after the int() coercion
PortText(v) == IF ParseInt(v).ok THEN IntStr(ParseInt(v).n) ELSE PyStr(v)

\* _format_port_label
format_port_label(attrs) ==
  LET from_port == DictGet(attrs, "from_port", NoneV)
      to_port == DictGet(attrs, "to_port", NoneV)
      protocol == DictGet(attrs, "protocol", StrV("tcp"))
      proto_text == IF protocol.t = "str" THEN Upper(protocol.s) ELSE PyStr(protocol)
      same == IF ParseInt(from_port).ok /\ ParseInt(to_port).ok
              THEN ParseInt(from_port).n = ParseInt(to_port).n
              ELSE ~ParseInt(from_port).ok /\ ~ParseInt(to_port).ok /\ from_port = to_port
  IN IF from_port.t = "none" THEN ""
     ELSE IF protocol.t = "str" /\ proto_text = "-1" THEN "All Traffic"
     ELSE IF same \/ to_port.t = "none" THEN proto_text \o "/" \o PortText(from_port)
     ELSE IF ParseInt(from_port).ok /\ ParseInt(from_port).n = 0
             /\ ParseInt(to_port).ok /\ ParseInt(to_port).n = 65535
          THEN proto_text \o "/All"
     ELSE proto_text \o "/" \o PortText(from_port) \o "-" \o PortText(to_port)

\* re.finditer(prefix + r"(\w+)" + suffix [+ r"(\w+)"]) on s; two_words
\* tells whether a second \w+ follows the suffix.
\* The first group of a match at position i of s, once the prefix is there
RefName(s, i, prefix) ==
  LET rest == SubSeq(s, i + Len(prefix), Len(s)) IN SubSeq(rest, 1, WordRun(rest))

\* the length of the second \w+ of a match at position i
RefSecondWord(s, i, prefix, suffix, two_words) ==
  IF two_words
  THEN WordRun(SubSeq(s, i + Len(prefix) + Len(RefName(s, i, prefix)) + Len(suffix), Len(s)))
  ELSE 0

\* there is a match that starts at position i of s
RefMatch(s, i, prefix, suffix, two_words) ==
  /\ SubSeq(s, i, i + Len(prefix) - 1) = prefix
  /\ RefName(s, i, prefix) # ""
  /\ StartsWith(SubSeq(s, i + Len(prefix) + Len(RefName(s, i, prefix)), Len(s)), suffix)
  /\ (two_words => RefSecondWord(s, i, prefix, suffix, two_words) >= 1)

\* the first groups of the matches that start at position from or later
RECURSIVE RefNamesFrom(_, _, _, _, _)
RefNamesFrom(s, from, prefix, suffix, two_words) ==
  LET starts == {i \in from..(Len(s) - Len(prefix)) : RefMatch(s, i, prefix, suffix, two_words)}
      first == CHOOSE i \in starts : \A k \in starts : i <= k
  IN IF starts = {} THEN <<>>
     ELSE <<RefName(s, first, prefix)>>
            \o RefNamesFrom(s, first + Len(prefix) + Len(RefName(s, first, prefix)) + Len(suffix)
                                 + RefSecondWord(s, first, prefix, suffix, two_words),
                            prefix, suffix, two_words)

RefNames(s, prefix, suffix, two_words) == RefNamesFrom(s, 1, prefix, suffix, two_words)

ResourceRelationship(source_id, target_id, relationship_type, label) ==
  [source_id |-> source_id, target_id |-> target_id,
   relationship_type |-> relationship_type, label |-> label]

\* type_index.get(t, [])
OfType(resources, t) == SelectSeq(resources, LAMBDA r : r.resource_type = t)

\* "for res in candidates: if <hit>: ...; break": the first resource named
\* name, as a list of at most one resource
FirstNamed(candidates, name) ==
  LET hits == SelectSeq(candidates, LAMBDA r : r.resource_name = name)
  IN IF hits = <<>> THEN <<>> ELSE <<hits[1]>>

\* _resolve_sg_ref: a list of at most one resource (empty for None)
resolve_sg_ref(value, sg_resources) ==
  LET names == RefNames(value, "aws_security_group.", "", FALSE)
  IN IF names = <<>> THEN <<>> ELSE FirstNamed(sg_resources, names[1])

\* the relationship of one reference ref of a rule owned by sg_full_id
SgRelationship(ref, sg_full_id, attrs, sg_resources) ==
  LET source_sg == resolve_sg_ref(ref, sg_resources)
  IN IF source_sg # <<>> /\ full_id(source_sg[1]) # sg_full_id
     THEN <<ResourceRelationship(full_id(source_sg[1]), sg_full_id, "sg_allows_from",
                                 format_port_label(attrs))>>
     ELSE <<>>

\* _process_sg_rule
process_sg_rule(rule, sg_full_id, sg_resources) ==
  LET given == DictGet(rule, "security_groups", ListV(<<>>))
      sg_refs == IF given.t = "list" THEN given.items
                 ELSE IF Truthy(given) THEN <<given>> ELSE <<>>
  IN FlattenSeq([i \in 1..Len(sg_refs) |->
                   SgRelationship(PyStr(sg_refs[i]), sg_full_id, rule, sg_resources)])

\* case 2 and case 3 of _extract_sg_cross_references
StandaloneSgRule(resource, source_key, sg_resources) ==
  LET target_sg == resolve_sg_ref(PyStr(DictGet(resource.attributes, "security_group_id",
                                                StrV(""))), sg_resources)
  IN IF target_sg = <<>> THEN <<>>
     ELSE SgRelationship(PyStr(DictGet(resource.attributes, source_key, StrV(""))),
                         full_id(target_sg[1]), resource.attributes, sg_resources)

\* _extract_sg_cross_references: the relationships it appends
extract_sg_cross_references(resource, resources) ==
  LET sg_resources == OfType(resources, "aws_security_group")
      ingress_rules == DictGet(resource.attributes, "ingress", ListV(<<>>))
  IN IF sg_resources = <<>> THEN <<>>
     ELSE CASE resource.resource_type = "aws_security_group" ->
                 IF ingress_rules.t # "list" THEN <<>>
                 ELSE FlattenSeq([i \in 1..Len(ingress_rules.items) |->
                        IF ingress_rules.items[i].t # "dict" THEN <<>>
                        ELSE process_sg_rule(ingress_rules.items[i].items, full_id(resource),
                                             sg_resources)])
            [] resource.resource_type = "aws_security_group_rule" ->
                 IF DictGet(resource.attributes, "type", NoneV) # StrV("ingress") THEN <<>>
                 ELSE StandaloneSgRule(resource, "source_security_group_id", sg_resources)
            [] resource.resource_type = "aws_vpc_security_group_ingress_rule" ->
                 StandaloneSgRule(resource, "referenced_security_group_id", sg_resources)
            [] OTHER -> <<>>

RELATIONSHIP_EXTRACTORS ==
  << <<"vpc_id", "belongs_to_vpc", "aws_vpc">>,
     <<"subnet_id", "deployed_in_subnet", "aws_subnet">>,
     <<"subnet_ids", "deployed_in_subnets", "aws_subnet">>,
     <<"security_group_ids", "uses_security_group", "aws_security_group">>,
     <<"vpc_security_group_ids", "uses_security_group", "aws_security_group">>,
     <<"security_groups", "uses_security_group", "aws_security_group">>,
     <<"kms_master_key_id", "encrypted_by", "aws_kms_key">>,
     <<"kms_key_id", "encrypted_by", "aws_kms_key">>,
     <<"target_group_arn", "routes_to", "aws_lb_target_group">>,
     <<"load_balancer_arn", "attached_to", "aws_lb">>,
     <<"web_acl_arn", "protected_by", "aws_wafv2_web_acl">>,
     <<"waf_acl_arn", "protected_by", "aws_wafv2_web_acl">>,
     <<"certificate_arn", "uses_certificate", "aws_acm_certificate">>,
     <<"role_arn", "assumes_role", "aws_iam_role">>,
     <<"queue_arn", "sends_to_queue", "aws_sqs_queue">>,
     <<"topic_arn", "publishes_to", "aws_sns_topic">>,
     <<"alarm_topic_arn", "alerts_to", "aws_sns_topic">> >>

\* _find_referenced_resources
find_referenced_resources(value, target_type, resources) ==
  LET value_str == PyStr(value)
      candidates == OfType(resources, target_type)
      names == RefNames(value_str, target_type \o ".", ".", FALSE)
      modules == RefNames(value_str, "module.", ".", TRUE)
  IN FlattenSeq([i \in 1..Len(names) |-> FirstNamed(candidates, names[i])])
       \o FlattenSeq([i \in 1..Len(modules) |->
            LET hits == SelectSeq(candidates, LAMBDA r : r.module_path = modules[i])
            IN IF hits = <<>> THEN <<>> ELSE <<hits[1]>>])

\* the loop over RELATIONSHIP_EXTRACTORS for one resource
ExtractorRelationships(resource, resources) ==
  FlattenSeq([i \in 1..Len(RELATIONSHIP_EXTRACTORS) |->
    LET value == DictGet(resource.attributes, RELATIONSHIP_EXTRACTORS[i][1], NoneV)
        targets == IF Truthy(value)
                   THEN find_referenced_resources(value, RELATIONSHIP_EXTRACTORS[i][3], resources)
                   ELSE <<>>
    IN [j \in 1..Len(targets) |->
          ResourceRelationship(full_id(resource), full_id(targets[j]),
                               RELATIONSHIP_EXTRACTORS[i][2], "")]])

\* _extract_dlq_relationship
extract_dlq_relationship(resource, resources) ==
  LET redrive == DictGet(resource.attributes, "redrive_policy", NoneV)
      names == RefNames(redrive.s, "aws_sqs_queue.", ".arn", FALSE)
      queue == IF names = <<>> THEN <<>>
               ELSE FirstNamed(OfType(resources, "aws_sqs_queue"), names[1])
  IN IF resource.resource_type = "aws_sqs_queue" /\ redrive.t = "str" /\ queue # <<>>
     THEN <<ResourceRelationship(full_id(resource), full_id(queue[1]), "redrives_to", "DLQ")>>
     ELSE <<>>

DEEP_SCAN_EXCLUDED_TYPES ==
  {"aws_security_group", "aws_iam_role", "aws_iam_policy", "aws_subnet", "aws_vpc",
   "aws_route_table", "aws_route_table_association", "aws_eip", "aws_network_interface"}

\* the resource types in type_index, in insertion order
RECURSIVE TypeIndexKeys(_, _)
TypeIndexKeys(resources, seen) ==
  IF resources = <<>> THEN <<>>
  ELSE IF Head(resources).resource_type \in seen THEN TypeIndexKeys(Tail(resources), seen)
       ELSE <<Head(resources).resource_type>>
              \o TypeIndexKeys(Tail(resources), seen \cup {Head(resources).resource_type})

\* "for match in re.finditer(pattern, attrs_str)" of _extract_deep_references
\* for one target type: [known, rels] after the loop
RECURSIVE DeepMatches(_, _, _, _, _)
DeepMatches(resource, names, candidates, known, rels) ==
  IF names = <<>> THEN [known |-> known, rels |-> rels]
  ELSE LET hits == SelectSeq(candidates, LAMBDA r : r.resource_name = Head(names)
                                                    /\ full_id(r) \notin known)
       IN IF hits = <<>> THEN DeepMatches(resource, Tail(names), candidates, known, rels)
          ELSE DeepMatches(resource, Tail(names), candidates, known \cup {full_id(hits[1])},
                           rels \o <<ResourceRelationship(full_id(resource), full_id(hits[1]),
                                                          "references", "")>>)

\* "for target_type, resources_of_type in type_index.items()"
RECURSIVE DeepTypes(_, _, _, _, _)
DeepTypes(resource, resources, types, known, rels) ==
  IF types = <<>> THEN rels
  ELSE IF Head(types) = resource.resource_type \/ Head(types) \in DEEP_SCAN_EXCLUDED_TYPES
       THEN DeepTypes(resource, resources, Tail(types), known, rels)
       ELSE LET r == DeepMatches(resource,
                                 RefNames(PyRepr(DictV(resource.attributes)),
                                          Head(types) \o ".", ".", FALSE),
                                 OfType(resources, Head(types)), known, rels)
            IN DeepTypes(resource, resources, Tail(types), r.known, r.rels)

\* _extract_deep_references: result.relationships after the call
extract_deep_references(resource, resources, relationships) ==
  DeepTypes(resource, resources, TypeIndexKeys(resources, {}),
            {relationships[i].target_id :
               i \in {j \in 1..Len(relationships) :
                        relationships[j].source_id = full_id(resource)}},
            relationships)

\* "for resource in result.resources" of _extract_relationships:
\* result.relationships after the resources from the i-th on are handled
\* (Len(relationships) < 0 never holds: it has the list built so far
\* evaluated before the next resource is handled)
RECURSIVE ExtractFrom(_, _, _)
ExtractFrom(resources, i, relationships) ==
  IF i > Len(resources) \/ Len(relationships) < 0 THEN relationships
  ELSE ExtractFrom(resources, i + 1,
         extract_deep_references(resources[i], resources,
            relationships \o extract_dlq_relationship(resources[i], resources)
                          \o ExtractorRelationships(resources[i], resources))
           \o extract_sg_cross_references(resources[i], resources))

\* _extract_relationships
extract_relationships(resources) == ExtractFrom(resources, 1, <<>>)

(***************************************************************************)
(* VariableResolver.truncate_name (variable_resolver.py)                   *)
(***************************************************************************)
\* s[:k], k negative counting from the end
SliceTo(s, k) ==
  IF k >= 0 THEN SubSeq(s, 1, Min(k, Len(s))) ELSE SubSeq(s, 1, Max(0, Len(s) + k))

truncate_name(name, max_length) ==
  IF Len(name) <= max_length THEN name ELSE SliceTo(name, max_length - 3) \o "..."

(***************************************************************************)
(* The pipeline of main(): parse, aggregate, lay out.  One run is one      *)
(* process; a later run of the tool on the same input is a new process     *)
(* with a hash seed of its own.                                            *)
(***************************************************************************)
VARIABLES
  aggregation_rules,     \* ResourceAggregator._aggregation_rules
  logical_connections,   \* ResourceAggregator._logical_connections
  resources,             \* ParseResult.resources
  relationships,         \* ParseResult.relationships
  resolver,              \* the VariableResolver of terraform_dir, if one is given
  state_result,          \* TerraformParser.get_state_result()
  base_config,           \* LayoutEngine.base_config
  hash_seed,             \* the str hash seed of the running process
  pc,                    \* position of the run in main()
  aggregated,            \* AggregatedResult returned by aggregate()
  layout,                \* positions, groups, canvas height of compute_layout()
  config,                \* LayoutEngine.config
  previous,              \* what the previous run on this input returned
  runs,                  \* number of runs started on this input
  call                   \* a direct call of a function of the package, and what it returned

vars == <<aggregation_rules, logical_connections, resources, relationships, resolver,
          state_result, base_config, hash_seed, pc, aggregated, layout, config, previous, runs,
          call>>

\* runs of the tool on one input
MaxRuns == 2

NoAggregated == [services |-> <<>>, connections |-> <<>>, vpc_structure |-> NoVPCStructure]
NoLayout == [positions |-> EmptyDict, groups |-> <<>>, canvas_height |-> 0]
NoPrevious == [present |-> FALSE, aggregated |-> NoAggregated, layout |-> NoLayout]
\* no function is called directly
NoCall == [fn |-> "", args |-> <<>>, returned |-> FALSE, value |-> ""]

\* a configured rule table (aggregation_rules.yaml) in table order
RuleTable ==
  << FlatRule("cloudfront", <<"aws_cloudfront_distribution">>, <<>>, FALSE),
     FlatRule("vpc", <<"aws_vpc">>, <<"aws_subnet", "aws_route_table">>, TRUE),
     FlatRule("alb", <<"aws_lb", "aws_alb">>, <<"aws_lb_listener">>, TRUE),
     FlatRule("ec2", <<"aws_instance">>, <<>>, TRUE),
     FlatRule("rds", <<"aws_db_instance">>, <<"aws_db_subnet_group">>, TRUE),
     FlatRule("dynamodb", <<"aws_dynamodb_table">>, <<>>, FALSE),
     FlatRule("s3", <<"aws_s3_bucket">>, <<"aws_s3_bucket_policy">>, FALSE),
     FlatRule("sqs", <<"aws_sqs_queue">>, <<"aws_sqs_queue_policy">>, FALSE),
     FlatRule("sns", <<"aws_sns_topic">>, <<"aws_sns_topic_subscription">>, FALSE),
     FlatRule("kms", <<"aws_kms_key">>, <<"aws_kms_alias">>, FALSE),
     FlatRule("iam", <<"aws_iam_role", "aws_iam_user">>, <<"aws_iam_policy">>, FALSE),
     FlatRule("lambda", <<"aws_lambda_function">>, <<>>, FALSE) >>

\* the configured logical connections (logical_connections.yaml)
ConnTable ==
  << ConnRule("alb", "ec2", "HTTP", "default"),
     ConnRule("lambda", "dynamodb", "Read/Write", "data_flow"),
     ConnRule("iam", "dynamodb", "", "default"),
     ConnRule("sns", "sqs", "Subscribe", "trigger"),
     ConnRule("sns", "kms", "Encrypt", "encrypt"),
     ConnRule("lambda", "s3", "Read/Write", "data_flow"),
     ConnRule("sqs", "s3", "Notify", "trigger") >>

\* a VariableResolver whose directory declares variable env = "prod"
ProdResolver ==
  [present |-> TRUE, variables |-> <<KV("env", StrV("prod"))>>, locals |-> <<>>]

RECURSIVE IndexSeq(_)
IndexSeq(S) ==
  IF S = {} THEN <<>>
  ELSE LET m == CHOOSE a \in S : \A b \in S : a <= b IN <<m>> \o IndexSeq(S \ {m})

\* the resource lists made of entries of pool, in pool order
Selections(pool) ==
  {[i \in 1..Cardinality(S) |-> pool[IndexSeq(S)[i]]] : S \in SUBSET (1..Len(pool))}

\* the state after ResourceAggregator() and LayoutEngine() are constructed
\* and the files are parsed
PipelineInit(rule_table, input_lists, resolvers) ==
  /\ aggregation_rules = BuildAggregationRules(rule_table)
  /\ logical_connections = ConnTable
  /\ resources \in input_lists
  /\ relationships = <<>>
  /\ resolver \in resolvers
  /\ state_result = NoState
  /\ base_config = DefaultLayoutConfig
  /\ hash_seed \in HashSeeds
  /\ pc = "read"
  /\ aggregated = NoAggregated
  /\ layout = NoLayout
  /\ config = DefaultLayoutConfig
  /\ previous = NoPrevious
  /\ runs = 1

\* a run of main() on one of the inputs
InitWithRules(rule_table, input_lists, resolvers) ==
  /\ PipelineInit(rule_table, input_lists, resolvers)
  /\ call = NoCall

\* the same, under the rule table RuleTable
InitWith(input_lists, resolvers) == InitWithRules(RuleTable, input_lists, resolvers)

\* the end of parse_directory: self._extract_relationships(result)
ExtractRelationships ==
  /\ pc = "read"
  /\ relationships' = extract_relationships(resources)
  /\ pc' = "parsed"
  /\ UNCHANGED <<aggregation_rules, logical_connections, resources, resolver, state_result,
                 base_config, hash_seed, aggregated, layout, config, previous, runs, call>>

\* aggregator.aggregate(parse_result, terraform_dir, state_result)
Aggregate ==
  /\ pc = "parsed"
  /\ LET Result(services, vpc_structure) ==
           IF vpc_structure.raised # ""
           THEN \* the exception leaves aggregate() and main(): no result
                /\ aggregated' = aggregated
                /\ pc' = "raised"
           ELSE /\ aggregated' =
                     [services |-> services,
                      connections |-> AggregateConnections(logical_connections, services),
                      vpc_structure |-> vpc_structure]
                /\ pc' = "aggregated"
     IN Result(AggregateServices(aggregation_rules, resources, resolver, state_result, hash_seed),
               IF resolver.present THEN build(resources, resolver, state_result)
               ELSE NoVPCStructure)
  /\ UNCHANGED <<aggregation_rules, logical_connections, resources, relationships, resolver,
                 state_result, base_config, hash_seed, layout, config, previous, runs, call>>

\* a variant of compute_layout that scales the config the previous call
\* left in self.config
ComputeLayoutFromConfig ==
  /\ pc = "aggregated"
  /\ LET r == compute_layout(config, aggregated.services, aggregated.connections,
                             aggregated.vpc_structure, hash_seed)
     IN /\ layout' = [positions |-> r.positions, groups |-> r.groups,
                      canvas_height |-> r.canvas_height]
        /\ config' = r.config
  /\ pc' = "laid_out"
  /\ UNCHANGED <<aggregation_rules, logical_connections, resources, relationships, resolver,
                 state_result, base_config, hash_seed, aggregated, previous, runs, call>>

\* layout_engine.compute_layout(aggregated)
ComputeLayout ==
  /\ pc = "aggregated"
  /\ LET r == compute_layout(base_config, aggregated.services, aggregated.connections,
                             aggregated.vpc_structure, hash_seed)
     IN /\ layout' = [positions |-> r.positions, groups |-> r.groups,
                      canvas_height |-> r.canvas_height]
        /\ config' = r.config
  /\ pc' = "laid_out"
  /\ UNCHANGED <<aggregation_rules, logical_connections, resources, relationships, resolver,
                 state_result, base_config, hash_seed, aggregated, previous, runs, call>>

\* the tool is started again on the same input: a new process, new objects
Rerun ==
  /\ pc = "laid_out"
  /\ runs < MaxRuns
  /\ previous' = [present |-> TRUE, aggregated |-> aggregated, layout |-> layout]
  /\ hash_seed' \in HashSeeds
  /\ aggregated' = NoAggregated
  /\ layout' = NoLayout
  /\ config' = base_config
  /\ relationships' = <<>>
  /\ pc' = "read"
  /\ runs' = runs + 1
  /\ UNCHANGED <<aggregation_rules, logical_connections, resources, resolver, state_result,
                 base_config, call>>

Next == ExtractRelationships \/ Aggregate \/ ComputeLayout \/ Rerun

(***************************************************************************)
(* Aggregation: queues, topics, load balancers and instances               *)
(***************************************************************************)
AggPool ==
  << Resource("aws_sqs_queue", "orders", "", <<KV("name", StrV("orders-${var.env}"))>>, 0),
     Resource("aws_sqs_queue_policy", "orders", "", <<>>, 0),
     Resource("aws_sqs_queue", "dead_letters", "", <<>>, 0),
     Resource("aws_sns_topic_subscription", "orders", "", <<>>, 0),
     Resource("aws_lb", "front", "", <<>>, 0),
     Resource("aws_alb", "back", "", <<>>, 0),
     Resource("aws_instance", "web", "", <<>>, 0),
     Resource("aws_instance", "api", "", <<>>, 0),
     Resource("aws_instance", "worker", "app", <<>>, 0) >>

InitAgg == InitWith(Selections(AggPool), {ProdResolver})
SpecAgg == InitAgg /\ [][Next]_vars

\* the resources of the input whose type is in a list of types
OfTypes(types) == SelectSeq(resources, LAMBDA r : InSeq(r.resource_type, types))
\* the services aggregate() returned for a rule
Emitted(rule) == SelectSeq(aggregated.services, LAMBDA s : s.service_type = rule.name)
Aggregated == pc \in {"aggregated", "laid_out"}

\* C1: a non-VPC rule yields exactly one service when a resource of one of
\* its primary types is in the input, and none otherwise (secondary-type
\* resources alone yield nothing); the service's count is the number of
\* input resources of a primary type of the rule
C1_GroupedCount ==
  Aggregated =>
    \A i \in 1..Len(aggregation_rules) :
      LET rule == aggregation_rules[i]
          n == Len(OfTypes(rule.primary))
      IN ~rule.is_vpc =>
           IF n >= 1
           THEN Len(Emitted(rule)) = 1 /\ Emitted(rule)[1].count = n
           ELSE Emitted(rule) = <<>>

\* two queues and a queue policy were grouped into one service of count 2,
\* and a topic subscription alone gave no sns service
C1_Witness ==
  /\ Aggregated
  /\ Len(OfTypes(<<"aws_sqs_queue">>)) = 2
  /\ Len(OfTypes(<<"aws_sqs_queue_policy">>)) = 1
  /\ Len(OfTypes(<<"aws_sns_topic_subscription">>)) = 1
  /\ \E i \in 1..Len(aggregated.services) :
       /\ aggregated.services[i].service_type = "sqs"
       /\ aggregated.services[i].count = 2
       /\ Len(aggregated.services[i].resources) = 3
  /\ \A i \in 1..Len(aggregated.services) : aggregated.services[i].service_type # "sns"

\* C2: a VPC rule yields one service per primary-type resource, in input
\* order, each with count 1, is_vpc_resource, that one resource and its
\* full_id as resource_id; no two services share a resource_id
C2_DeGrouped ==
  Aggregated =>
    /\ \A i \in 1..Len(aggregation_rules) :
         LET rule == aggregation_rules[i]
             prim == OfTypes(rule.primary)
         IN rule.is_vpc =>
              /\ Len(Emitted(rule)) = Len(prim)
              /\ \A k \in 1..Len(prim) :
                   /\ Emitted(rule)[k].count = 1
                   /\ Emitted(rule)[k].is_vpc_resource
                   /\ Emitted(rule)[k].resources = <<prim[k]>>
                   /\ Emitted(rule)[k].resource_id = full_id(prim[k])
    /\ \A a, b \in 1..Len(aggregated.services) :
         (a # b /\ aggregated.services[a].resource_id # "")
           => aggregated.services[a].resource_id # aggregated.services[b].resource_id

\* three instances and two load balancers were de-grouped into five services
C2_Witness ==
  /\ Aggregated
  /\ Len(OfTypes(<<"aws_instance">>)) = 3
  /\ Len(OfTypes(<<"aws_lb", "aws_alb">>)) = 2
  /\ Cardinality({aggregated.services[i].resource_id : i \in 1..Len(aggregated.services)}
                   \ {""}) = 5

\* the connections of the result that carry one rule's label and type
\* between two given services
Between(conn, a, b) ==
  SelectSeq(aggregated.connections,
            LAMBDA c : /\ c.source_id = ServiceId(a) /\ c.target_id = ServiceId(b)
                       /\ c.label = conn.label /\ c.connection_type = conn.type)

RECURSIVE PairCount(_)
PairCount(conns) ==
  IF conns = <<>> THEN 0
  ELSE Len(ServicesByType(aggregated.services, Head(conns).source))
         * Len(ServicesByType(aggregated.services, Head(conns).target))
       + PairCount(Tail(conns))

\* C3: for every logical-connection rule A -> B there is exactly one
\* connection for each (service of A, service of B) pair, carrying the ids
\* of the pair, and the result holds no other connection: |A| x |B|
\* connections per rule, none when A or B has no service
C3_CrossProduct ==
  Aggregated =>
    /\ \A k \in 1..Len(logical_connections) :
         LET conn == logical_connections[k]
             A == ServicesByType(aggregated.services, conn.source)
             B == ServicesByType(aggregated.services, conn.target)
         IN \A i \in 1..Len(A), j \in 1..Len(B) : Len(Between(conn, A[i], B[j])) = 1
    /\ Len(aggregated.connections) = PairCount(logical_connections)

\* two load balancers and three instances gave the six alb -> ec2 connections
C3_Witness ==
  /\ Aggregated
  /\ Len(ServicesByType(aggregated.services, "alb")) = 2
  /\ Len(ServicesByType(aggregated.services, "ec2")) = 3
  /\ Len(SelectSeq(aggregated.connections, LAMBDA c : c.label = "HTTP")) = 6

(***************************************************************************)
(* VPC structure: subnets named by type and number, no AZ attribute        *)
(***************************************************************************)
MainVpc == Resource("aws_vpc", "main", "", <<KV("cidr_block", StrV("10.0.0.0/16"))>>, 0)

\* subnet <type>-<i>, without availability_zone and without count
NumberedSubnet(type, i) == Resource("aws_subnet", type \o "-" \o Ch(DigitChars, i + 1), "", <<>>, 0)

\* public-i, private-i, database-i for i = 1..n, number by number
ByNumber(n) ==
  FlattenSeq([i \in 1..n |-> <<NumberedSubnet("public", i), NumberedSubnet("private", i),
                               NumberedSubnet("database", i)>>])
\* the same subnets, type by type
ByType(n) ==
  [i \in 1..n |-> NumberedSubnet("database", i)]
    \o [i \in 1..n |-> NumberedSubnet("public", i)]
    \o [i \in 1..n |-> NumberedSubnet("private", i)]

\* the most AZs the builder has a letter for
MaxAzs == Len(AZ_LETTERS)

AzInputs ==
  UNION {{<<MainVpc>> \o ByNumber(n), ByNumber(n) \o <<MainVpc>>,
          <<MainVpc>> \o ByType(n), Reverse(ByNumber(n)) \o <<MainVpc>>} : n \in 2..MaxAzs}

InitAz == InitWith(AzInputs, {ProdResolver})
SpecAz == InitAz /\ [][Next]_vars

SubnetsOfType(az, t) == SelectSeq(az.subnets, LAMBDA sn : sn.subnet_type = t)

\* C8: for one aws_vpc and subnets public-i, private-i, database-i
\* (i = 1..n, 2 <= n <= 6) without availability_zone, count or live state,
\* build yields exactly n AZs, each holding exactly one public, one
\* private and one database subnet
C8_OneOfEachTypePerAz ==
  Aggregated =>
    LET n == Len(OfTypes(<<"aws_subnet">>)) \div 3
        azs == aggregated.vpc_structure.availability_zones
    IN /\ aggregated.vpc_structure.present
       /\ Len(azs) = n
       /\ \A i \in 1..Len(azs) :
            /\ Len(azs[i].subnets) = 3
            /\ \A t \in {"public", "private", "database"} : Len(SubnetsOfType(azs[i], t)) = 1

\* eighteen subnets were spread over six AZs
C8_Witness ==
  /\ Aggregated
  /\ Len(OfTypes(<<"aws_subnet">>)) = 18
  /\ Len(aggregated.vpc_structure.availability_zones) = 6
  /\ \A i \in 1..6 : Len(aggregated.vpc_structure.availability_zones[i].subnets) = 3

(***************************************************************************)
(* Subnets with explicit AZs and the services placed in them               *)
(***************************************************************************)
SubnetIn(name, az) ==
  Resource("aws_subnet", name, "", <<KV("availability_zone", StrV(az))>>, 0)

\* a resource whose subnet_id is the reference text ref
InSubnet(type, name, ref) == Resource(type, name, "", <<KV("subnet_id", StrV(ref))>>, 0)

\* the reference to a root-module subnet as the parser hands it over
SubnetRef(name) == "${aws_subnet." \o name \o ".id}"

AzSubnets ==
  << SubnetIn("private_b", "us-east-1b"), SubnetIn("public_a", "us-east-1a"),
     SubnetIn("app_c", "us-east-1c"), SubnetIn("db_d", "us-east-1d") >>

WebInstances ==
  << InSubnet("aws_instance", "web", SubnetRef("public_a")),
     InSubnet("aws_instance", "web2", SubnetRef("public_a")),
     InSubnet("aws_instance", "web3", SubnetRef("public_a")) >>

OtherVpcResources ==
  << SubnetIn("public-a", "us-east-1a"),
     InSubnet("aws_instance", "api", SubnetRef("public-a")),
     InSubnet("aws_instance", "job", "${module.network.aws_subnet.jobs.id}"),
     InSubnet("aws_db_instance", "orders", SubnetRef("private_b")) >>

Prefixes(q) == {SubSeq(q, 1, k) : k \in 0..Len(q)}

VpcInputs ==
  {v \o a \o w \o o : v \in Prefixes(<<MainVpc>>), a \in Prefixes(AzSubnets),
                      w \in Prefixes(WebInstances), o \in Selections(OtherVpcResources)}

InitVpc == InitWith(VpcInputs, {ProdResolver})
SpecVpc == InitVpc /\ [][Next]_vars

LaidOut == pc = "laid_out"
Positioned(id) == id \in DOMAIN layout.positions
\* rectangle a lies entirely inside rectangle b
Inside(a, b) ==
  /\ b.x <= a.x /\ a.x + a.width <= b.x + b.width
  /\ b.y <= a.y /\ a.y + a.height <= b.y + b.height
\* the subnets of the VPC structure, AZ by AZ
AllSubnets ==
  FlattenSeq([i \in 1..Len(aggregated.vpc_structure.availability_zones) |->
                aggregated.vpc_structure.availability_zones[i].subnets])
\* the subnets of the structure a service's subnet_ids resolve to: directly
\* by resource id, or through _state_subnet:<aws_id>
ResolvedSubnets(service) ==
  SelectSeq(AllSubnets,
            LAMBDA sn : \/ InSeq(sn.resource_id, service.subnet_ids)
                        \/ sn.aws_id # "" /\ InSeq("_state_subnet:" \o sn.aws_id, service.subnet_ids))

\* C4: after compute_layout a service with a subnet_id resolving to a
\* subnet of the VPC structure has its rectangle entirely inside the
\* rectangle of a subnet it resolves to
C4_ServiceInsideSubnet ==
  LaidOut =>
    \A i \in 1..Len(aggregated.services) :
      LET service == aggregated.services[i]
          subnets == ResolvedSubnets(service)
      IN subnets # <<>> =>
           /\ Positioned(ServiceId(service))
           /\ \E k \in 1..Len(subnets) :
                /\ Positioned(subnets[k].resource_id)
                /\ Inside(layout.positions[ServiceId(service)],
                          layout.positions[subnets[k].resource_id])

\* C6: after compute_layout positions has an entry for every service other
\* than those of service_type vpc, for every subnet of every AZ and for
\* every VPC endpoint
C6_EverythingPositioned ==
  LaidOut =>
    /\ \A i \in 1..Len(aggregated.services) :
         aggregated.services[i].service_type # "vpc"
           => Positioned(ServiceId(aggregated.services[i]))
    /\ \A i \in 1..Len(AllSubnets) : Positioned(AllSubnets[i].resource_id)
    /\ \A i \in 1..Len(aggregated.vpc_structure.endpoints) :
         Positioned(aggregated.vpc_structure.endpoints[i].resource_id)

\* the input is one aws_vpc, a subnet X in us-east-1a, a subnet Y in
\* us-east-1b and one aws_instance whose subnet_id references X
IsScenario(x, y, r) ==
  /\ Len(resources) = 4
  /\ Len(OfTypes(<<"aws_vpc">>)) = 1
  /\ resources[x].resource_type = "aws_subnet" /\ resources[x].module_path = ""
  /\ DictGet(resources[x].attributes, "availability_zone", NoneV) = StrV("us-east-1a")
  /\ resources[y].resource_type = "aws_subnet" /\ resources[y].module_path = ""
  /\ DictGet(resources[y].attributes, "availability_zone", NoneV) = StrV("us-east-1b")
  /\ resources[r].resource_type = "aws_instance"
  /\ DictGet(resources[r].attributes, "subnet_id", NoneV)
       = StrV(SubnetRef(resources[x].resource_name))

\* C9: in the scenario the structure has 2 AZs of 1 subnet each, the
\* instance's service has subnet_ids = [aws_subnet.X], and its rectangle
\* lies inside the rectangle of X and not inside that of Y
C9_Scenario ==
  LaidOut =>
    \A x, y, r \in 1..Len(resources) :
      IsScenario(x, y, r) =>
        LET azs == aggregated.vpc_structure.availability_zones
            service == ServicesByType(aggregated.services, "ec2")[1]
        IN /\ Len(azs) = 2
           /\ \A i \in 1..Len(azs) : Len(azs[i].subnets) = 1
           /\ Len(ServicesByType(aggregated.services, "ec2")) = 1
           /\ service.subnet_ids = <<full_id(resources[x])>>
           /\ Positioned(ServiceId(service))
           /\ Positioned(full_id(resources[x]))
           /\ Positioned(full_id(resources[y]))
           /\ Inside(layout.positions[ServiceId(service)],
                     layout.positions[full_id(resources[x])])
           /\ ~Inside(layout.positions[ServiceId(service)],
                      layout.positions[full_id(resources[y])])

(***************************************************************************)
(* The connection-aware grid and repeated runs                             *)
(***************************************************************************)
GridPool ==
  << Resource("aws_dynamodb_table", "orders", "", <<>>, 0),
     Resource("aws_sqs_queue", "events", "", <<>>, 0),
     Resource("aws_sns_topic", "alerts", "", <<>>, 0),
     Resource("aws_kms_key", "main", "", <<>>, 0),
     Resource("aws_iam_role", "worker", "", <<>>, 0),
     Resource("aws_lambda_function", "handler", "", <<>>, 0),
     Resource("aws_s3_bucket", "assets", "", <<>>, 0) >>

\* an instance attached to two subnets
Bastion ==
  Resource("aws_instance", "bastion", "",
           <<KV("subnet_ids", ListV(<<StrV(SubnetRef("public_a")),
                                      StrV(SubnetRef("private_b"))>>))>>, 0)

GridInputs == Selections(GridPool) \cup {<<Bastion>>}

InitGrid == InitWith(GridInputs, {NoResolver})
SpecGrid == InitGrid /\ [][Next]_vars

\* two rectangles share a point of positive area
Overlap(a, b) ==
  /\ a.x < b.x + b.width /\ b.x < a.x + a.width
  /\ a.y < b.y + b.height /\ b.y < a.y + a.height

\* C5: after compute_layout no two distinct services have overlapping
\* rectangles
C5_NoOverlap ==
  LaidOut =>
    \A i, j \in 1..Len(aggregated.services) :
      LET a == ServiceId(aggregated.services[i])
          b == ServiceId(aggregated.services[j])
      IN (i # j /\ Positioned(a) /\ Positioned(b))
           => ~Overlap(layout.positions[a], layout.positions[b])

\* C7: a second run of aggregate and compute_layout on the same input
\* returns the services, connections, positions, groups and canvas height
\* of the first run
C7_SameResultEveryRun ==
  (LaidOut /\ previous.present) =>
    /\ aggregated.services = previous.aggregated.services
    /\ aggregated.connections = previous.aggregated.connections
    /\ layout.positions = previous.layout.positions
    /\ layout.groups = previous.layout.groups
    /\ layout.canvas_height = previous.layout.canvas_height

\* the id-to-Position map alone is the same in both runs
SamePositionsEveryRun ==
  (LaidOut /\ previous.present) => layout.positions = previous.layout.positions

(***************************************************************************)
(* Canvas height: many subnets in one AZ                                   *)
(***************************************************************************)
\* the subnet named s<i> of us-east-1a
StackedSubnet(i) == SubnetIn("s" \o Ch(DigitChars, i + 1), "us-east-1a")

\* subnets stacked in one AZ
MaxStacked == 8

HeightInputs ==
  {<<MainVpc>> \o [i \in 1..k |-> StackedSubnet(i)] \o w \o o :
     k \in 0..MaxStacked,
     w \in Prefixes(<< InSubnet("aws_instance", "web", SubnetRef("s1")),
                       InSubnet("aws_instance", "api", SubnetRef("s2")) >>),
     o \in Selections(<< Resource("aws_cloudfront_distribution", "cdn", "", <<>>, 0),
                         Resource("aws_dynamodb_table", "orders", "", <<>>, 0),
                         Resource("aws_vpc_endpoint", "s3", "",
                                  <<KV("service_name", StrV("com.amazonaws.us-east-1.s3"))>>, 0) >>)}

InitHeight == InitWith(HeightInputs, {ProdResolver})
SpecHeight == InitHeight /\ [][Next]_vars

Bottom(p) == p.y + p.height

\* C10: every positioned rectangle and every vpc and az group rectangle
\* ends at or above the canvas height compute_layout returns
C10_CanvasHoldsContent ==
  LaidOut =>
    /\ \A id \in DOMAIN layout.positions :
         Bottom(layout.positions[id]) <= Px(layout.canvas_height)
    /\ \A i \in 1..Len(layout.groups) :
         layout.groups[i].group_type \in {"vpc", "az"}
           => Bottom(layout.groups[i].position) <= Px(layout.canvas_height)

(***************************************************************************)
(* AZ boxes inside the VPC box                                             *)
(***************************************************************************)
GroupsOfType(t) == SelectSeq(layout.groups, LAMBDA g : g.group_type = t)

EndpointRuleTable ==
  RuleTable \o << FlatRule("vpc_endpoint", <<"aws_vpc_endpoint">>, <<>>, TRUE) >>

IdPool ==
  << MainVpc,
     SubnetIn("public_a", "us-east-1a"),
     Resource("aws_vpc_endpoint", "s3", "",
              <<KV("service_name", StrV("com.amazonaws.us-east-1.s3")),
                KV("vpc_endpoint_type", StrV("Gateway"))>>, 0),
     Resource("aws_vpc_endpoint", "ecr", "",
              <<KV("service_name", StrV("com.amazonaws.us-east-1.ecr.api"))>>, 0),
     InSubnet("aws_instance", "web", SubnetRef("public_a")),
     Resource("aws_s3_bucket", "assets", "", <<>>, 0) >>

InitIds == InitWithRules(EndpointRuleTable, Selections(IdPool), {ProdResolver})
SpecIds == InitIds /\ [][Next]_vars

\* the keys the layout writes positions under: service ids, subnet ids,
\* endpoint ids
PositionKeys ==
  [i \in 1..Len(aggregated.services) |-> ServiceId(aggregated.services[i])]
    \o [i \in 1..Len(AllSubnets) |-> AllSubnets[i].resource_id]
    \o [i \in 1..Len(aggregated.vpc_structure.endpoints) |->
          aggregated.vpc_structure.endpoints[i].resource_id]

\* C12: for resources with pairwise-distinct full_id, the ids of all
\* services, subnets and VPC endpoints are pairwise distinct, and no
\* entity's Position is overwritten under a key another entity holds: an
\* endpoint that was positioned keeps its 80 x 65 box in the endpoint column
C12_IdsGloballyUnique ==
  /\ Aggregated =>
        \A i, j \in 1..Len(PositionKeys) : i # j => PositionKeys[i] # PositionKeys[j]
  /\ LaidOut =>
        \A i \in 1..Len(aggregated.vpc_structure.endpoints) :
          LET id == aggregated.vpc_structure.endpoints[i].resource_id
          IN Positioned(id) =>
               /\ layout.positions[id].width = Px(80)
               /\ layout.positions[id].height = Px(65)

(***************************************************************************)
(* Security-group ingress rules in their three shapes                      *)
(***************************************************************************)
SgRef(name) == StrV("${aws_security_group." \o name \o ".id}")
SecurityGroup(name, ingress) ==
  Resource("aws_security_group", name, "",
           IF ingress = <<>> THEN <<>> ELSE <<KV("ingress", ListV(ingress))>>, 0)
\* the port attributes of a rule; from_port or to_port below 0 stands for absent
Ports(protocol, from_port, to_port) ==
  (IF from_port < 0 THEN <<>> ELSE <<KV("from_port", IntV(from_port))>>)
    \o (IF to_port < 0 THEN <<>> ELSE <<KV("to_port", IntV(to_port))>>)
    \o <<KV("protocol", StrV(protocol))>>
IngressBlock(ports, names) ==
  DictV(ports \o <<KV("security_groups", ListV([i \in 1..Len(names) |-> SgRef(names[i])]))>>)

SgPool ==
  << SecurityGroup("alb", <<>>),
     SecurityGroup("web", << IngressBlock(Ports("tcp", 80, 80), <<"alb">>),
                             IngressBlock(Ports("-1", 0, 0), <<"web", "alb">>) >>),
     SecurityGroup("db", << IngressBlock(Ports("tcp", 0, 65535), <<"web", "ghost">>) >>),
     Resource("aws_security_group_rule", "db_from_web", "",
              <<KV("type", StrV("ingress")), KV("security_group_id", SgRef("db")),
                KV("source_security_group_id", SgRef("web"))>> \o Ports("udp", 8000, 8080), 0),
     Resource("aws_security_group_rule", "web_to_alb", "",
              <<KV("type", StrV("egress")), KV("security_group_id", SgRef("web")),
                KV("source_security_group_id", SgRef("alb"))>> \o Ports("tcp", 80, 80), 0),
     Resource("aws_vpc_security_group_ingress_rule", "alb_from_web", "",
              <<KV("security_group_id", SgRef("alb")),
                KV("referenced_security_group_id", SgRef("web"))>> \o Ports("-1", -1, -1), 0),
     Resource("aws_vpc_security_group_ingress_rule", "web_from_db", "",
              <<KV("security_group_id", SgRef("web")),
                KV("referenced_security_group_id", SgRef("db")),
                KV("from_port", StrV("443")), KV("protocol", StrV("tcp"))>>, 0) >>

InitSg == InitWith(Selections(SgPool), {NoResolver})
SpecSg == InitSg /\ [][Next]_vars

Extracted == pc # "read"
SgRelationships ==
  SelectSeq(relationships, LAMBDA rel : rel.relationship_type = "sg_allows_from")

\* the name a reference "aws_security_group.<name>[.attr]" holds: Terraform
\* names are made of letters, digits, underscores and hyphens
RefGroupName(ref) ==
  LET at == CHOOSE i \in 1..Len(ref) : SubSeq(ref, i, i + 18) = "aws_security_group."
      rest == SubSeq(ref, at + 19, Len(ref))
      stop == {i \in 1..Len(rest) : ~(IsWord(Ch(rest, i)) \/ Ch(rest, i) = "-")}
  IN IF ~Contains(ref, "aws_security_group.") THEN ""
     ELSE IF stop = {} THEN rest
     ELSE SubSeq(rest, 1, (CHOOSE i \in stop : \A k \in stop : i <= k) - 1)

\* the full_id of the security group of the input a reference names, "" if none
ReferencedGroup(ref) ==
  LET hits == SelectSeq(resources, LAMBDA r : r.resource_type = "aws_security_group"
                                              /\ r.resource_name = RefGroupName(ref))
  IN IF hits = <<>> THEN "" ELSE full_id(hits[1])

\* the ingress rules of the input: [owner, sources, attrs], owner and sources
\* being references resolved to full_ids
IngressRules ==
  FlattenSeq([i \in 1..Len(resources) |->
    LET r == resources[i]
        blocks == DictGet(r.attributes, "ingress", ListV(<<>>)).items
        standalone(source_key) ==
          <<[owner |-> ReferencedGroup(DictGet(r.attributes, "security_group_id", StrV("")).s),
             sources |-> <<ReferencedGroup(DictGet(r.attributes, source_key, StrV("")).s)>>,
             attrs |-> r.attributes]>>
    IN CASE r.resource_type = "aws_security_group" ->
              [k \in 1..Len(blocks) |->
                 [owner |-> full_id(r),
                  sources |-> LET refs == DictGet(blocks[k].items, "security_groups",
                                                  ListV(<<>>)).items
                              IN [n \in 1..Len(refs) |-> ReferencedGroup(refs[n].s)],
                  attrs |-> blocks[k].items]]
         [] r.resource_type = "aws_security_group_rule"
              /\ DictGet(r.attributes, "type", NoneV) = StrV("ingress") ->
              standalone("source_security_group_id")
         [] r.resource_type = "aws_vpc_security_group_ingress_rule" ->
              standalone("referenced_security_group_id")
         [] OTHER -> <<>>])

\* the label the formatting rule gives to the attributes of an ingress rule
\* whose protocol is "-1" or whose from_port is present
ReferenceLabel(attrs) ==
  LET from_port == DictGet(attrs, "from_port", NoneV)
      to_port == DictGet(attrs, "to_port", NoneV)
      proto == Upper(DictGet(attrs, "protocol", StrV("tcp")).s)
  IN IF DictGet(attrs, "protocol", StrV("tcp")).s = "-1" THEN "All Traffic"
     ELSE IF to_port.t = "none" \/ ParseInt(from_port).n = ParseInt(to_port).n
          THEN proto \o "/" \o PortText(from_port)
     ELSE IF ParseInt(from_port).n = 0 /\ ParseInt(to_port).n = 65535 THEN proto \o "/All"
     ELSE proto \o "/" \o PortText(from_port) \o "-" \o PortText(to_port)

\* C13: the label of every sg_allows_from relationship is the formatting of
\* an ingress rule of its target group: "All Traffic" when the protocol is
\* "-1" (whatever the ports, an absent from_port included), else PROTO/port
\* for a single port, PROTO/All for 0-65535, PROTO/from-to otherwise
C13_PortLabel ==
  Extracted =>
    \A i \in 1..Len(SgRelationships) :
      \E k \in 1..Len(IngressRules) :
        /\ IngressRules[k].owner = SgRelationships[i].target_id
        /\ InSeq(SgRelationships[i].source_id, IngressRules[k].sources)
        /\ SgRelationships[i].label = ReferenceLabel(IngressRules[k].attrs)

(***************************************************************************)
(* Direct calls of VariableResolver.truncate_name                          *)
(***************************************************************************)
\* the largest max_length passed
MaxLength == 26

TruncateNames ==
  {"", "a", "ab", "abc", "abcd", "short", "production-api-gateway-service"}

\* truncate_name(name, max_length) is about to be called; no run of main()
InitTruncate ==
  /\ PipelineInit(RuleTable, {<<>>}, {NoResolver})
  /\ call \in {[fn |-> "truncate_name", args |-> <<name, max_length>>,
                returned |-> FALSE, value |-> ""] :
                 name \in TruncateNames, max_length \in 0..MaxLength}

\* VariableResolver.truncate_name(name, max_length) returns
TruncateName ==
  /\ call.fn = "truncate_name"
  /\ ~call.returned
  /\ call' = [call EXCEPT !.returned = TRUE,
                          !.value = truncate_name(call.args[1], call.args[2])]
  /\ UNCHANGED <<aggregation_rules, logical_connections, resources, relationships, resolver,
                 state_result, base_config, hash_seed, pc, aggregated, layout, config,
                 previous, runs>>

NextTruncate == TruncateName
SpecTruncate == InitTruncate /\ [][NextTruncate]_vars

Returned(fn) == call.fn = fn /\ call.returned

\* C14: truncate_name(name, max_length) returns name unchanged when
\* len(name) <= max_length; otherwise a string of exactly max_length
\* characters that ends with "..." and starts with a prefix of name; the
\* result is never longer than max_length, for every max_length >= 0
C14_TruncateWithinMaxLength ==
  Returned("truncate_name") =>
    LET name == call.args[1]
        max_length == call.args[2]
        result == call.value
    IN /\ Len(name) <= max_length => result = name
       /\ Len(name) > max_length =>
            /\ Len(result) = max_length
            /\ Len(result) >= 3
            /\ SubSeq(result, Len(result) - 2, Len(result)) = "..."
            /\ StartsWith(name, SubSeq(result, 1, Len(result) - 3))
       /\ Len(result) <= max_length

\* the same for max_length >= 3
TruncateFromThree ==
  (Returned("truncate_name") /\ call.args[2] >= 3) =>
    LET name == call.args[1]
        max_length == call.args[2]
        result == call.value
    IN /\ Len(name) <= max_length => result = name
       /\ Len(name) > max_length =>
            /\ Len(result) = max_length
            /\ SubSeq(result, Len(result) - 2, Len(result)) = "..."
            /\ StartsWith(name, SubSeq(result, 1, Len(result) - 3))

(***************************************************************************)
(* References between resources, some of them to resources not in the set  *)
(***************************************************************************)
Ref(type, name, attr) == StrV("${" \o type \o "." \o name \o "." \o attr \o "}")

RelPool ==
  << MainVpc,
     Resource("aws_instance", "web", "",
              <<KV("vpc_id", Ref("aws_vpc", "main", "id")),
                KV("subnet_id", Ref("aws_subnet", "ghost", "id")),
                KV("vpc_security_group_ids", ListV(<<Ref("aws_security_group", "web", "id")>>))>>, 0),
     Resource("aws_lambda_function", "handler", "",
              <<KV("role_arn", Ref("aws_iam_role", "missing", "arn")),
                KV("environment", ListV(<<DictV(<<KV("variables", DictV(
                     <<KV("TABLE", Ref("aws_dynamodb_table", "orders", "name")),
                       KV("QUEUE", Ref("aws_sqs_queue", "nowhere", "url"))>>))>>)>>))>>, 0),
     Resource("aws_dynamodb_table", "orders", "", <<>>, 0),
     Resource("aws_sqs_queue", "events", "",
              <<KV("redrive_policy", StrV("{deadLetterTargetArn = ${aws_sqs_queue.dlq.arn}}"))>>, 0),
     Resource("aws_sqs_queue", "dlq", "", <<>>, 0),
     SecurityGroup("web", <<>>),
     SecurityGroup("db", <<>>),
     Resource("aws_security_group_rule", "db_from_web2", "",
              <<KV("type", StrV("ingress")), KV("security_group_id", SgRef("db")),
                KV("source_security_group_id", SgRef("web-2"))>> \o Ports("tcp", 5432, 5432), 0) >>

InitRel == InitWith(Selections(RelPool), {NoResolver})
SpecRel == InitRel /\ [][Next]_vars

\* the resource of the input with a full_id, as a list of at most one
ResourceWithId(id) == SelectSeq(resources, LAMBDA r : full_id(r) = id)

\* the attributes of source hold a reference <type>.<name>.<attr> to target
RefersTo(source, target) ==
  LET text == PyRepr(DictV(source.attributes))
      ref == target.resource_type \o "." \o target.resource_name \o "."
  IN \E i \in 1..Len(text) :
       /\ SubSeq(text, i, i + Len(ref) - 1) = ref
       /\ (i = 1 \/ ~IsWord(Ch(text, i - 1)))

\* C15: every relationship joins two resources of the parsed list, and is
\* there because of a reference to its target: an sg_allows_from
\* relationship because an ingress rule of the target group names the
\* source group, any other because the attributes of the source resource
\* name the target resource; a reference to a (type, name) that matches no
\* resource of the list yields no relationship
C15_OnlyResolvedReferences ==
  Extracted =>
    \A i \in 1..Len(relationships) :
      LET rel == relationships[i]
          source == ResourceWithId(rel.source_id)
          target == ResourceWithId(rel.target_id)
      IN /\ source # <<>>
         /\ target # <<>>
         /\ IF rel.relationship_type = "sg_allows_from"
            THEN \E k \in 1..Len(IngressRules) :
                   /\ IngressRules[k].owner = rel.target_id
                   /\ InSeq(rel.source_id, IngressRules[k].sources)
            ELSE RefersTo(source[1], target[1])

(***************************************************************************)
(* Ingress rules between security groups whose names hold hyphens          *)
(***************************************************************************)
SgRefPool ==
  << SecurityGroup("web", <<>>),
     SecurityGroup("web-2", <<>>),
     SecurityGroup("db", << IngressBlock(Ports("tcp", 5432, 5432), <<"web-2", "db">>) >>),
     Resource("aws_security_group_rule", "db_from_web", "",
              <<KV("type", StrV("ingress")), KV("security_group_id", SgRef("db")),
                KV("source_security_group_id", SgRef("web"))>> \o Ports("tcp", 22, 22), 0),
     Resource("aws_security_group_rule", "db_to_web", "",
              <<KV("type", StrV("egress")), KV("security_group_id", SgRef("db")),
                KV("source_security_group_id", SgRef("web"))>> \o Ports("tcp", 80, 80), 0),
     Resource("aws_vpc_security_group_ingress_rule", "web_from_db", "",
              <<KV("security_group_id", SgRef("web")),
                KV("referenced_security_group_id", SgRef("db"))>> \o Ports("tcp", 443, 443), 0) >>

InitSgRef == InitWith(Selections(SgRefPool), {NoResolver})
SpecSgRef == InitSgRef /\ [][Next]_vars

\* the <<source, target>> pairs the ingress rules of the input call for, in
\* the order of the rules: one per referenced group that is in the input and
\* is not the owner of the rule
IngressPairs ==
  FlattenSeq([k \in 1..Len(IngressRules) |->
    LET rule == IngressRules[k]
        named == SelectSeq(rule.sources, LAMBDA src : src # "" /\ src # rule.owner)
    IN IF rule.owner = "" THEN <<>>
       ELSE [n \in 1..Len(named) |-> <<named[n], rule.owner>>]])

\* C16: the sg_allows_from relationships are, one for one, the references of
\* the ingress rules (inline blocks, aws_security_group_rule of type
\* ingress, aws_vpc_security_group_ingress_rule) to groups of the input,
\* from the referenced group to the owner of the rule; none joins a group
\* to itself and a rule that is not an ingress rule adds none
C16_IngressReferences ==
  Extracted =>
    /\ [i \in 1..Len(SgRelationships) |->
          <<SgRelationships[i].source_id, SgRelationships[i].target_id>>] = IngressPairs
    /\ \A i \in 1..Len(SgRelationships) :
         SgRelationships[i].source_id # SgRelationships[i].target_id

\* C17: without an aws_vpc resource in the input the VPC structure is None
\* and the layout holds no 'vpc' group, no 'az' group and no position for a
\* subnet or an endpoint, whatever services the input yields
C17_NoVpcNoBox ==
  OfTypes(<<"aws_vpc">>) = <<>> =>
    /\ Aggregated => ~aggregated.vpc_structure.present
    /\ LaidOut =>
         /\ GroupsOfType("vpc") = <<>>
         /\ GroupsOfType("az") = <<>>
         /\ \A i \in 1..Len(resources) :
              resources[i].resource_type \in {"aws_subnet", "aws_vpc_endpoint"}
                => ~Positioned(full_id(resources[i]))

(***************************************************************************)
(* Subnets and endpoints nothing can be detected from                      *)
(***************************************************************************)
\* subnet net<i>: no availability_zone, no AZ suffix, no type in its name
PlainSubnet(i) == Resource("aws_subnet", "net" \o Ch(DigitChars, i + 1), "", <<>>, 0)

\* subnets without a detectable AZ
MaxPlain == 7

OddPool ==
  << Resource("aws_subnet", "tagged", "",
              <<KV("tags", DictV(<<KV("Type", IntV(1))>>))>>, 0),
     Resource("aws_subnet", "untyped", "",
              <<KV("tags", DictV(<<KV("Type", IntV(0))>>)),
                KV("availability_zone", IntV(3))>>, 0),
     Resource("aws_subnet", "counted", "", <<KV("tags", StrV("public"))>>, 7),
     Resource("aws_vpc_endpoint", "odd", "",
              <<KV("service_name", IntV(5)), KV("vpc_endpoint_type", IntV(1))>>, 0),
     Resource("aws_vpc_endpoint", "short", "",
              <<KV("service_name", StrV("s3")), KV("vpc_endpoint_type", StrV("GatewayLoadBalancer"))>>, 0) >>

UndetectableInputs ==
  {v \o [i \in 1..k |-> PlainSubnet(i)] \o o :
     v \in Prefixes(<<MainVpc>>), k \in 0..MaxPlain, o \in Selections(OddPool)}

InitUndetectable == InitWith(UndetectableInputs, {ProdResolver})
SpecUndetectable == InitUndetectable /\ [][Next]_vars

\* C18: build never raises, whatever the attribute value types, the count
\* values and the numbers of subnets and AZs; in the structure it returns
\* every subnet has one of the four types and a non-empty availability_zone
\* ('unknown' when no AZ is detected), every endpoint has type 'gateway' or
\* 'interface' and a service name, 'unknown' when service_name cannot be
\* parsed
C18_BuildNeverRaises ==
  /\ pc # "raised"
  /\ Aggregated =>
       /\ \A i \in 1..Len(AllSubnets) :
            /\ AllSubnets[i].subnet_type \in {"public", "private", "database", "unknown"}
            /\ AllSubnets[i].availability_zone # ""
       /\ \A i \in 1..Len(aggregated.vpc_structure.endpoints) :
            LET ep == aggregated.vpc_structure.endpoints[i]
                r == ResourceWithId(ep.resource_id)[1]
                service_name == DictGet(r.attributes, "service_name", StrV(""))
            IN /\ ep.endpoint_type \in {"gateway", "interface"}
               /\ ep.service # ""
               /\ (service_name.t # "str" \/ Len(Split(service_name.s, ".")) < 4)
                    => ep.service = "unknown"

(***************************************************************************)
(* A rule table that lists a type under two rules                          *)
(***************************************************************************)
OverlapRuleTable ==
  << FlatRule("storage", <<"aws_s3_bucket">>, <<"aws_s3_bucket_policy">>, FALSE),
     FlatRule("s3", <<"aws_s3_bucket", "aws_s3_object">>, <<>>, FALSE),
     FlatRule("messaging", <<"aws_sns_topic">>, <<"aws_sqs_queue">>, FALSE),
     FlatRule("sqs", <<"aws_sqs_queue">>, <<>>, FALSE),
     FlatRule("ec2", <<"aws_instance">>, <<>>, TRUE) >>

OverlapPool ==
  << Resource("aws_s3_bucket", "assets", "", <<>>, 0),
     Resource("aws_s3_bucket", "logs", "", <<>>, 0),
     Resource("aws_s3_bucket_policy", "assets", "", <<>>, 0),
     Resource("aws_sqs_queue", "orders", "", <<>>, 0),
     Resource("aws_sns_topic", "alerts", "", <<>>, 0),
     Resource("aws_instance", "web", "", <<>>, 0) >>

InitOverlap == InitWithRules(OverlapRuleTable, Selections(OverlapPool), {ProdResolver})
SpecOverlap == InitOverlap /\ [][Next]_vars

\* the rules listing a type as primary or secondary, in table order
RulesListing(res_type) ==
  SelectSeq(aggregation_rules,
            LAMBDA rule : InSeq(res_type, rule.primary) \/ InSeq(res_type, rule.aggregate))

\* C19: every resource attached to a service is grouped under the first
\* rule of the table that lists its type, also when a later rule lists the
\* type again
C19_FirstRegistrationWins ==
  Aggregated =>
    \A i \in 1..Len(aggregated.services) :
      LET service == aggregated.services[i]
      IN \A k \in 1..Len(service.resources) :
           service.service_type = RulesListing(service.resources[k].resource_type)[1].name

(***************************************************************************)
(* AZs that receive subnets by their AZ key and from the round-robin       *)
(***************************************************************************)
MixedPool ==
  << SubnetIn("private_a", "us-east-1a"),
     SubnetIn("public_a", "us-east-1a"),
     SubnetIn("db_b", "us-east-1b"),
     Resource("aws_subnet", "public", "", <<>>, 0),
     Resource("aws_subnet", "dmz", "", <<>>, 0),
     Resource("aws_subnet", "backend", "", <<>>, 0),
     Resource("aws_subnet", "misc", "", <<>>, 0) >>

MixedInputs == {v \o sn : v \in Prefixes(<<MainVpc>>), sn \in Selections(MixedPool)}
InitMixed == InitWith(MixedInputs, {ProdResolver})
SpecMixed == InitMixed /\ [][Next]_vars

\* subnet a may stand before subnet b: by type public, private, database,
\* unknown, then by name
InSubnetOrder(a, b) ==
  \/ type_order(a.subnet_type) < type_order(b.subnet_type)
  \/ /\ a.subnet_type = b.subnet_type
     /\ (a.name = b.name \/ StrLess(a.name, b.name))

\* C20: in every AZ of the structure build returns the subnets are sorted by
\* type (public, private, database, unknown) and within a type by name,
\* also in an AZ that holds subnets assigned by their AZ key and subnets
\* from the round-robin distribution
C20_SubnetsSortedInAz ==
  Aggregated =>
    \A i \in 1..Len(aggregated.vpc_structure.availability_zones) :
      LET subnets == aggregated.vpc_structure.availability_zones[i].subnets
      IN \A k \in 1..(Len(subnets) - 1) : InSubnetOrder(subnets[k], subnets[k + 1])

(***************************************************************************)
(* Rows of icons: the edge row and the top row of the VPC box              *)
(***************************************************************************)
EdgeRuleTable ==
  RuleTable \o << FlatRule("waf", <<"aws_wafv2_web_acl">>, <<>>, FALSE),
                  FlatRule("route53", <<"aws_route53_zone">>, <<"aws_route53_record">>, FALSE) >>

RowPool ==
  << Resource("aws_cloudfront_distribution", "cdn", "", <<>>, 0),
     Resource("aws_wafv2_web_acl", "acl", "", <<>>, 0),
     Resource("aws_route53_zone", "zone", "", <<>>, 0),
     Resource("aws_lb", "front", "", <<>>, 0),
     Resource("aws_instance", "web", "", <<>>, 0),
     Resource("aws_instance", "api", "", <<>>, 0),
     Resource("aws_s3_bucket", "assets", "", <<>>, 0) >>

InitRows == InitWithRules(EdgeRuleTable, Selections(RowPool), {ProdResolver})
SpecRows == InitRows /\ [][Next]_vars

\* the services of a row stand centered as a group in [min_x, max_x]
CenteredRow(row, min_x, max_x) ==
  LET total_items_width ==
        Px(Len(row) * config.icon_size + (Len(row) - 1) * config.icon_spacing)
      x(i) == layout.positions[ServiceId(row[i])].x
  IN /\ 2 * (x(1) - min_x) = (max_x - min_x) - total_items_width
     /\ \A i \in 1..(Len(row) - 1) :
          x(i + 1) - x(i) = Px(config.icon_size + config.icon_spacing)
     /\ x(1) - min_x = max_x - (x(Len(row)) + Px(config.icon_size))

\* C21: the edge row is centered in [padding, canvas_width - padding] and
\* the top row of the VPC box (services without subnet_ids) in the VPC box
\* less group_padding on both sides: the first item starts at
\* min_x + (available_width - total_items_width) / 2, consecutive items are
\* icon_size + icon_spacing apart and the free space left of the first item
\* equals the free space right of the last
C21_RowsCentered ==
  LaidOut =>
    LET edge == edge_services(aggregated.services)
        top == services_without_subnets(aggregated.services)
        vpc_x == Px(config.padding + 50)
        vpc_width == Px(config.canvas_width - 2 * (config.padding + 50))
    IN /\ edge # <<>> =>
            CenteredRow(edge, Px(config.padding), Px(config.canvas_width - config.padding))
       /\ top # <<>> =>
            CenteredRow(top, vpc_x + Px(config.group_padding),
                        vpc_x + vpc_width - Px(config.group_padding))

(***************************************************************************)
(* The connection-aware grid, read back from the positions                 *)
(***************************************************************************)
GridServices == non_vpc_services(aggregated.services)
GridOrder == SortedTypes(GridServices, aggregated.connections)

\* start_y of the grid: vpc_bottom_y
GridStartY ==
  IF GroupsOfType("vpc") # <<>>
  THEN GroupsOfType("vpc")[1].position.y + GroupsOfType("vpc")[1].position.height + Px(40)
  ELSE Px(config.padding + 40 + config.row_spacing + 20)

\* the <<row, col>> of the grid a service stands in
GridCell(service) ==
  LET pos == layout.positions[ServiceId(service)]
      service_width == Px(config.icon_size + 50)
  IN <<(pos.y - GridStartY) \div service_width,
       (pos.x - Px(config.padding + 50)) \div service_width>>

\* logical connections in which kms is connected to dynamodb, whose three
\* neighbouring cells get taken, and to sqs, which keeps free neighbours
HubConnTable ==
  << ConnRule("dynamodb", "s3", "Export", "data_flow"),
     ConnRule("dynamodb", "sns", "Stream", "trigger"),
     ConnRule("dynamodb", "kms", "Encrypt", "encrypt"),
     ConnRule("s3", "sqs", "Notify", "trigger"),
     ConnRule("s3", "sns", "Notify", "trigger"),
     ConnRule("sqs", "kms", "Encrypt", "encrypt") >>

\* a run of main() under the hub connections
InitHub ==
  /\ aggregation_rules = BuildAggregationRules(RuleTable)
  /\ logical_connections = HubConnTable
  /\ resources \in Selections(GridPool)
  /\ relationships = <<>>
  /\ resolver = NoResolver
  /\ state_result = NoState
  /\ base_config = DefaultLayoutConfig
  /\ hash_seed \in HashSeeds
  /\ pc = "read"
  /\ aggregated = NoAggregated
  /\ layout = NoLayout
  /\ config = DefaultLayoutConfig
  /\ previous = NoPrevious
  /\ runs = 1
  /\ call = NoCall
SpecHub == InitHub /\ [][Next]_vars

\* the grid as the loop leaves it: the order of the types, the cell of the
\* first service of each type, the cells of all services of each type and
\* the connection graph
GridOrderOf == [k \in 1..Len(GridOrder) |-> GridOrder[k]]
GridFirstCells ==
  [t \in SeqToSet(GridOrder) |-> GridCell(ServicesByType(GridServices, t)[1])]
GridCells ==
  [t \in SeqToSet(GridOrder) |->
     {GridCell(ServicesByType(GridServices, t)[n]) :
        n \in 1..Len(ServicesByType(GridServices, t))}]
GridGraph ==
  [t \in SeqToSet(GridOrder) |-> ConnectedTypes(GridServices, aggregated.connections, t)]

\* the free in-bounds cells right of, below or left of a connected type
\* that is placed before the k-th type
FreeAdjacentCells(order, first, cells, graph, cols, k) ==
  LET before == {order[j] : j \in 1..(k - 1)}
      occupied == UNION {cells[t] : t \in before}
      Around(c) == {<<c[1], c[2] + 1>>, <<c[1] + 1, c[2]>>, <<c[1], c[2] - 1>>}
      near == UNION {Around(first[ct]) : ct \in graph[order[k]] \cap before}
  IN {c \in near : c[2] >= 0 /\ c[2] < cols /\ c \notin occupied}

AdjacentWhenPossible(order, first, cells, graph, cols) ==
  /\ \A i, j \in 1..Len(order) :
       i < j => Cardinality(graph[order[i]]) >= Cardinality(graph[order[j]])
  /\ \A k \in 1..Len(order) :
       LET free == FreeAdjacentCells(order, first, cells, graph, cols, k)
       IN free # {} => first[order[k]] \in free

\* C22: the grid takes the types in non-increasing order of connection
\* degree, and a type with an already-placed connected type that has a free
\* in-bounds cell to its right, below it or to its left gets its first
\* service into such a cell (not into a diagonal cell, not at the cursor)
C22_AdjacentWhenPossible ==
  LaidOut =>
    AdjacentWhenPossible(GridOrderOf, GridFirstCells, GridCells, GridGraph, GridCols(config))

(***************************************************************************)
(* Repeated references                                                     *)
(***************************************************************************)
DupPool ==
  << SecurityGroup("web", <<>>),
     Resource("aws_kms_key", "main", "", <<>>, 0),
     Resource("aws_instance", "twice", "",
              <<KV("vpc_security_group_ids", ListV(<<SgRef("web"), SgRef("web")>>))>>, 0),
     Resource("aws_instance", "legacy", "",
              <<KV("security_groups", ListV(<<SgRef("web")>>)),
                KV("vpc_security_group_ids", ListV(<<SgRef("web")>>))>>, 0),
     Resource("aws_sns_topic", "alerts", "",
              <<KV("kms_master_key_id", Ref("aws_kms_key", "main", "arn"))>>, 0),
     Resource("aws_sqs_queue", "events", "",
              <<KV("kms_master_key_id", Ref("aws_kms_key", "main", "arn")),
                KV("kms_key_id", Ref("aws_kms_key", "main", "id"))>>, 0) >>

InitDup == InitWith(Selections(DupPool), {NoResolver})
SpecDup == InitDup /\ [][Next]_vars

\* the (source_id, target_id, kind) of the i-th relationship
Edge(i) ==
  <<relationships[i].source_id, relationships[i].target_id,
    relationships[i].relationship_type>>

\* C23: the relationship list holds no two relationships with the same
\* (source_id, target_id, kind): a target referenced twice in one attribute
\* value or through two attributes of the same kind yields a single edge
C23_NoDuplicateRelationships ==
  Extracted => \A i, j \in 1..Len(relationships) : i # j => Edge(i) # Edge(j)

(***************************************************************************)
(* The resources of one module in two module instances                     *)
(***************************************************************************)
\* the resources of a module with a table, a key, a topic encrypted with
\* the key and a function reading the table, as parsed for one instance
StoreModule(module_name) ==
  << Resource("aws_dynamodb_table", "orders", module_name, <<>>, 0),
     Resource("aws_kms_key", "main", module_name, <<>>, 0),
     Resource("aws_sns_topic", "alerts", module_name,
              <<KV("kms_master_key_id", Ref("aws_kms_key", "main", "arn"))>>, 0),
     Resource("aws_lambda_function", "reader", module_name,
              <<KV("role", Ref("aws_iam_role", "worker", "arn")),
                KV("environment", ListV(<<DictV(<<KV("variables", DictV(
                     <<KV("TABLE", Ref("aws_dynamodb_table", "orders", "name")),
                       KV("TABLE_ARN", Ref("aws_dynamodb_table", "orders", "arn")),
                       KV("NEXT", Ref("aws_lambda_function", "writer", "arn"))>>))>>)>>))>>, 0),
     Resource("aws_lambda_function", "writer", module_name, <<>>, 0),
     Resource("aws_iam_role", "worker", module_name, <<>>, 0) >>

\* main.tf instantiates the module once or twice
ModuleInputs ==
  {first \o second : first \in Selections(StoreModule("store_eu")),
                     second \in {<<>>, StoreModule("store_us")}}

InitModule == InitWith(ModuleInputs, {NoResolver})
SpecModule == InitModule /\ [][Next]_vars

\* the relationships that leave a resource
Outgoing(id) == SelectSeq(relationships, LAMBDA rel : rel.source_id = id)

\* C24: the relationships that leave a resource reach at most one resource
\* of a given type and name, the deep scan adds no edge to a target an
\* earlier pass reached from the same source, and a 'references' edge
\* targets neither the type of its source nor a plumbing type
C24_OneTargetPerReference ==
  Extracted =>
    \A x \in 1..Len(resources) :
      LET out == Outgoing(full_id(resources[x]))
          Target(i) == ResourceWithId(out[i].target_id)[1]
      IN /\ \A i, j \in 1..Len(out) :
              (/\ Target(i).resource_type = Target(j).resource_type
               /\ Target(i).resource_name = Target(j).resource_name)
                => out[i].target_id = out[j].target_id
         /\ \A i, j \in 1..Len(out) :
              (i # j /\ out[j].relationship_type = "references")
                => out[i].target_id # out[j].target_id
         /\ \A i \in 1..Len(out) :
              out[i].relationship_type = "references"
                => /\ Target(i).resource_type # resources[x].resource_type
                   /\ Target(i).resource_type \notin DEEP_SCAN_EXCLUDED_TYPES

(***************************************************************************)
(* Service names of VPC endpoints                                          *)
(***************************************************************************)
Endpoint(name, attributes) == Resource("aws_vpc_endpoint", name, "", attributes, 0)

EndpointPool ==
  << MainVpc,
     Endpoint("s3", <<KV("service_name", StrV("com.amazonaws.us-east-1.s3"))>>),
     Endpoint("ecr", <<KV("service_name", StrV("com.amazonaws.us-east-1.ecr.api"))>>),
     Endpoint("dynamodb", <<KV("service_name", StrV("com.amazonaws.${var.aws_region}.dynamodb"))>>),
     Endpoint("dkr", <<KV("service_name",
                          StrV("com.amazonaws.${data.aws_region.current.name}.ecr.dkr"))>>),
     Endpoint("bare", <<KV("service_name", StrV("com.amazonaws.${var.aws_region}"))>>),
     Endpoint("short", <<KV("service_name", StrV("com.amazonaws.s3"))>>),
     Endpoint("unnamed", <<>>),
     Endpoint("listed", <<KV("service_name", ListV(<<StrV("com.amazonaws.us-east-1.s3")>>))>>) >>

InitEndpoint == InitWith(Selections(EndpointPool), {ProdResolver})
SpecEndpoint == InitEndpoint /\ [][Next]_vars

\* position i of s lies inside an interpolation ${...}
InInterpolation(s, i) ==
  \E a \in 1..(i - 1) :
    /\ SubSeq(s, a, a + 1) = "${"
    /\ \A b \in a..(i - 1) : Ch(s, b) # "}"

\* the dot-segments of a service name, an interpolation ${...} counting as
\* part of one segment whatever it holds
RECURSIVE SegmentsFrom(_, _)
SegmentsFrom(s, from) ==
  LET dots == {i \in from..Len(s) : Ch(s, i) = "." /\ ~InInterpolation(s, i)}
      first == CHOOSE i \in dots : \A k \in dots : i <= k
  IN IF dots = {} THEN <<SubSeq(s, from, Len(s))>>
     ELSE <<SubSeq(s, from, first - 1)>> \o SegmentsFrom(s, first + 1)

\* the service of com.amazonaws.<region>.<service>: the segments after the
\* third, 'unknown' when there is none
ServiceOf(resource) ==
  LET service_name == DictGet(resource.attributes, "service_name", NoneV)
      segments == SegmentsFrom(service_name.s, 1)
  IN IF service_name.t # "str" \/ Len(segments) < 4 THEN "unknown"
     ELSE Join(SubSeq(segments, 4, Len(segments)), ".")

\* C25: the service of an endpoint is the dot-joined segments after the
\* region segment of its service_name, the region being a literal or an
\* unresolved interpolation, and 'unknown' when service_name is missing, not
\* a string, or has no segment after the region
C25_EndpointService ==
  (Aggregated /\ aggregated.vpc_structure.present) =>
    \A i \in 1..Len(aggregated.vpc_structure.endpoints) :
      aggregated.vpc_structure.endpoints[i].service =
        ServiceOf(ResourceWithId(aggregated.vpc_structure.endpoints[i].resource_id)[1])

(***************************************************************************)
(* The layout of an empty result                                           *)
(***************************************************************************)
\* an AggregatedResult with no services, no connections and no vpc_structure
EmptyResult ==
  /\ aggregated.services = <<>>
  /\ aggregated.connections = <<>>
  /\ ~aggregated.vpc_structure.present

\* C26: the layout of an empty AggregatedResult has at least two groups,
\* an 'aws_cloud' group and a 'vpc' group, and the 'vpc' group has the
\* default height 180
C26_EmptyLayoutHasVpcGroup ==
  (LaidOut /\ EmptyResult) =>
    /\ Len(layout.groups) >= 2
    /\ GroupsOfType("aws_cloud") # <<>>
    /\ GroupsOfType("vpc") # <<>>
    /\ GroupsOfType("vpc")[1].position.height = Px(180)

(***************************************************************************)
(* Subnets with every kind of AZ key                                       *)
(***************************************************************************)
\* explicit AZs (app, db), detected keys (public-a, private_a, cache-c,
\* web-1), no key (misc) and a count of seven
KeyPool ==
  << SubnetIn("app", "us-east-1a"),
     SubnetIn("db", "us-east-1b"),
     Resource("aws_subnet", "public-a", "", <<>>, 0),
     Resource("aws_subnet", "private_a", "", <<>>, 0),
     Resource("aws_subnet", "cache-c", "", <<>>, 0),
     Resource("aws_subnet", "web-1", "", <<>>, 0),
     Resource("aws_subnet", "misc", "", <<>>, 0),
     Resource("aws_subnet", "counted", "", <<>>, 7) >>

KeyInputs == {<<MainVpc>> \o sn : sn \in Selections(KeyPool)}
InitKey == InitWith(KeyInputs, {ProdResolver})
SpecKey == InitKey /\ [][Next]_vars

\* the places <<AZ index, index in the AZ>> of the structure that hold the
\* subnet of a resource
PlacesOf(id) ==
  LET azs == aggregated.vpc_structure.availability_zones
  IN {p \in UNION {{<<a, k>> : k \in 1..Len(azs[a].subnets)} : a \in 1..Len(azs)} :
        azs[p[1]].subnets[p[2]].resource_id = id}

\* the number of subnets over all AZs of the structure
RECURSIVE TotalSubnets(_)
TotalSubnets(azs) ==
  IF azs = <<>> THEN 0 ELSE Len(Head(azs).subnets) + TotalSubnets(Tail(azs))

\* build returned a structure
Built == Aggregated /\ aggregated.vpc_structure.present

\* C27: every aws_subnet resource is in the structure build returns as one
\* Subnet of one AZ, and the AZs together hold as many subnets as the input
\* has aws_subnet resources
C27_EverySubnetOnce ==
  Built =>
    LET subnet_resources == OfType(resources, "aws_subnet")
    IN /\ \A i \in 1..Len(subnet_resources) :
            Cardinality(PlacesOf(full_id(subnet_resources[i]))) = 1
       /\ TotalSubnets(aggregated.vpc_structure.availability_zones) = Len(subnet_resources)

\* a structure with explicit AZs that holds a subnet under its explicit key,
\* one whose detected key matches a short name as a substring and two that
\* came from the round-robin (an unmatched detected key, no key)
C27_Witness ==
  /\ Built
  /\ Len(aggregated.vpc_structure.availability_zones) = 2
  /\ \E sn \in SeqToSet(AllSubnets) : sn.availability_zone = "us-east-1b"
  /\ \E a \in 1..2 : \E sn \in SeqToSet(aggregated.vpc_structure.availability_zones[a].subnets) :
       /\ sn.availability_zone = "detected-a"
       /\ aggregated.vpc_structure.availability_zones[a].name = "us-east-1a"
  /\ \E sn \in SeqToSet(AllSubnets) : sn.availability_zone = "detected-c"
  /\ \E sn \in SeqToSet(AllSubnets) : sn.availability_zone = "unknown"

\* C28: a structure build returns has at least one AZ, also for an input
\* without subnets, and its AZ names are pairwise distinct, also when the
\* AZs are made from a count above six
C28_DistinctAzNames ==
  Built =>
    LET azs == aggregated.vpc_structure.availability_zones
    IN /\ Len(azs) >= 1
       /\ \A a, b \in 1..Len(azs) : a # b => azs[a].name # azs[b].name

(***************************************************************************)
(* Boxes inside boxes                                                      *)
(***************************************************************************)
\* subnets stacked in one AZ and alone in another, an instance inside a
\* subnet, a load balancer without subnet_ids (top row) and three endpoints
NestedPool ==
  << SubnetIn("s1", "us-east-1a"),
     SubnetIn("s2", "us-east-1a"),
     SubnetIn("s3", "us-east-1a"),
     SubnetIn("t1", "us-east-1b"),
     InSubnet("aws_instance", "web", SubnetRef("s1")),
     Resource("aws_lb", "front", "", <<>>, 0),
     Endpoint("s3", <<KV("service_name", StrV("com.amazonaws.us-east-1.s3"))>>),
     Endpoint("ecr", <<KV("service_name", StrV("com.amazonaws.us-east-1.ecr.api"))>>),
     Endpoint("logs", <<KV("service_name", StrV("com.amazonaws.us-east-1.logs"))>>) >>

NestedInputs == {<<MainVpc>> \o sel : sel \in Selections(NestedPool)}
InitNested == InitWith(NestedInputs, {ProdResolver})
SpecNested == InitNested /\ [][Next]_vars

\* C29: with a structure of at least one AZ every subnet rectangle lies
\* inside the rectangle of the group of its AZ, and every AZ group
\* rectangle and every endpoint rectangle inside the 'vpc' group rectangle
C29_BoxesNested ==
  (LaidOut /\ aggregated.vpc_structure.present
           /\ aggregated.vpc_structure.availability_zones # <<>>) =>
    LET azs == aggregated.vpc_structure.availability_zones
        endpoints == aggregated.vpc_structure.endpoints
        boxes == GroupsOfType("az")
        vpc == GroupsOfType("vpc")[1].position
    IN /\ Len(boxes) = Len(azs)
       /\ \A a \in 1..Len(azs) :
            /\ Inside(boxes[a].position, vpc)
            /\ \A k \in 1..Len(azs[a].subnets) :
                 /\ Positioned(azs[a].subnets[k].resource_id)
                 /\ Inside(layout.positions[azs[a].subnets[k].resource_id], boxes[a].position)
       /\ \A e \in 1..Len(endpoints) :
            /\ Positioned(endpoints[e].resource_id)
            /\ Inside(layout.positions[endpoints[e].resource_id], vpc)

\* a layout with a top row, a subnet that holds a service above two empty
\* ones, and an endpoint column of three
C29_Witness ==
  /\ LaidOut
  /\ aggregated.vpc_structure.present
  /\ Len(aggregated.vpc_structure.availability_zones) = 2
  /\ Len(aggregated.vpc_structure.availability_zones[1].subnets) = 3
  /\ Len(aggregated.vpc_structure.endpoints) = 3
  /\ services_without_subnets(aggregated.services) # <<>>
  /\ \E i \in 1..Len(aggregated.services) :
       /\ ResolvedSubnets(aggregated.services[i]) # <<>>
       /\ Positioned(ServiceId(aggregated.services[i]))
       /\ layout.positions[ResolvedSubnets(aggregated.services[i])[1].resource_id].height
            = Px(config.icon_size + 56)

(***************************************************************************)
(* One LayoutEngine, several calls of compute_layout                       *)
(***************************************************************************)
\* calls of compute_layout on one engine
MaxCalls == 3

\* LayoutConfig(canvas_width=1200, ..., min_scale=0.9, max_scale=1.0)
NarrowLayoutConfig ==
  [canvas_width |-> 1200, canvas_height |-> 800, padding |-> 20, icon_size |-> 48,
   icon_spacing |-> 30, group_padding |-> 20, label_height |-> 20, row_spacing |-> 80,
   column_spacing |-> 100, min_scale |-> (9 * ScaleDen) \div 10, max_scale |-> ScaleDen]

\* inputs of different scale: 0.8, 0.9, 0.8 * 1.1, 0.8 * 1.15, 1.0 * 1.1
EngineInputs ==
  { <<>>,
    GridPool,
    <<MainVpc, SubnetIn("public_a", "us-east-1a"), SubnetIn("private_b", "us-east-1b"),
      SubnetIn("app_c", "us-east-1c")>>,
    <<MainVpc>> \o [i \in 1..4 |-> StackedSubnet(i)],
    GridPool \o <<MainVpc, SubnetIn("public_a", "us-east-1a"),
                  SubnetIn("private_b", "us-east-1b"), SubnetIn("app_c", "us-east-1c"),
                  Resource("aws_lb", "front", "", <<>>, 0),
                  InSubnet("aws_instance", "web", SubnetRef("public_a"))>> }

\* engine = LayoutEngine(config)
InitEngine ==
  /\ aggregation_rules = BuildAggregationRules(RuleTable)
  /\ logical_connections = ConnTable
  /\ resources = <<>>
  /\ relationships = <<>>
  /\ resolver = ProdResolver
  /\ state_result = NoState
  /\ base_config \in {DefaultLayoutConfig, NarrowLayoutConfig}
  /\ hash_seed \in HashSeeds
  /\ pc = "constructed"
  /\ aggregated = NoAggregated
  /\ layout = NoLayout
  /\ config = base_config
  /\ previous = NoPrevious
  /\ runs = 0
  /\ call = NoCall

\* the caller aggregates another input and is about to hand it to the engine
NextInput ==
  /\ pc \in {"constructed", "laid_out"}
  /\ runs < MaxCalls
  /\ \E input \in EngineInputs :
       LET Result(services, vpc_structure) ==
             aggregated' = [services |-> services,
                            connections |-> AggregateConnections(logical_connections, services),
                            vpc_structure |-> vpc_structure]
       IN /\ resources' = input
          /\ Result(AggregateServices(aggregation_rules, input, resolver, state_result, hash_seed),
                    build(input, resolver, state_result))
  /\ previous' = [present |-> pc = "laid_out", aggregated |-> aggregated, layout |-> layout]
  /\ layout' = NoLayout
  /\ runs' = runs + 1
  /\ pc' = "aggregated"
  /\ UNCHANGED <<aggregation_rules, logical_connections, relationships, resolver, state_result,
                 base_config, hash_seed, config, call>>

NextEngine == NextInput \/ ComputeLayout
SpecEngine == InitEngine /\ [][NextEngine]_vars

\* what LayoutEngine(base_config).compute_layout(aggregated) returns
FreshLayout ==
  compute_layout(base_config, aggregated.services, aggregated.connections,
                 aggregated.vpc_structure, hash_seed)

\* the scale of the input of the call
InputScale(result) == compute_responsive_scale(result.services, result.vpc_structure)

\* each field of the base config times the clamped scale of the input
ScaledBase(scale) ==
  LET clamped == IF scale < base_config.min_scale THEN base_config.min_scale
                 ELSE IF scale > base_config.max_scale THEN base_config.max_scale
                 ELSE scale
      fields == {"canvas_width", "canvas_height", "padding", "icon_size", "icon_spacing",
                 "group_padding", "label_height", "row_spacing", "column_spacing"}
  IN [f \in DOMAIN base_config |->
        IF f \in fields THEN ScaleInt(base_config[f], clamped) ELSE base_config[f]]

\* after a call the engine holds the result of a fresh engine
SameAsFreshEngine(fresh) ==
  /\ layout.positions = fresh.positions
  /\ layout.groups = fresh.groups
  /\ config = ScaledBase(InputScale(aggregated))

\* C30: after every call of compute_layout on one engine, with the input of
\* the call before or another one, the positions and groups are those of a
\* fresh engine with the same base config, engine.config is the base config
\* scaled by the clamped scale of this call's input, and no call changes
\* base_config
C30_CallsDoNotCompound ==
  /\ [](LaidOut => SameAsFreshEngine(FreshLayout))
  /\ [][base_config' = base_config]_vars

\* a third call whose input has another scale than the input before it, on
\* an engine whose config differs from its base config
C30_Witness ==
  /\ LaidOut
  /\ runs = 3
  /\ previous.present
  /\ InputScale(previous.aggregated) # InputScale(aggregated)
  /\ InputScale(aggregated) < base_config.min_scale
  /\ config # base_config

====
